---- MODULE Spec2Model ----
(***************************************************************************)
(* State-machine model of the HealthLink DICOM viewer                      *)
(* (src/components/dicom-viewer.tsx: DicomViewer and AIAnalysisSidebar;    *)
(*  src/unnamed/part_002: ImageViewer and Toolbar;                         *)
(*  src/unnamed/part_003: processImageWithAI).                             *)
(*                                                                         *)
(* React state hooks are the variables; every event handler, effect and    *)
(* asynchronous callback is one action.  A handler's action includes the   *)
(* re-render it causes.  Zoom factors are stored in tenths (10 is 1.0):    *)
(* the model computes the decimal arithmetic the source intends, not the   *)
(* binary rounding of IEEE doubles.                                        *)
(***************************************************************************)
EXTENDS Integers, Sequences, FiniteSets, TLC

VARIABLES
    \* DicomViewer state hooks
    images, activeImageIndex, viewMode, annotationMode, annotations,
    selectedAnnotation, showAISidebar, visibleImages, imageErrors,
    sliceZoomLevels, sliceInverted, annotationListVisible, capturedImageBlob,
    \* ImageViewer state hooks
    panPosition, isPanning, lastMousePosition, isDrawing, lineStart,
    \* AIAnalysisSidebar state hooks (of the mounted instance)
    isLoading, aiResult, hasAnalyzed,
    \* environment: localStorage and whether it can be used, the position of
    \* the component in its life ("mounted", "loaded", "saved": mount effects
    \* pending; "ready"; "crashed": a render threw), asynchronous work in flight,
    \* (image loads that will fail, image loads that will paint, screen
    \* captures, requests), what each canvas shows, the notice emitted by the
    \* latest handler, clock and id/URL generators
    storage, storageAccess, lifecycle, pendingLoads, pendingPaints, surface,
    pendingCaptures, requests, toast,
    now, nonce, uploads,
    \* history variables (not program state): counts of zoom steps, warnings,
    \* pan moves, and whether the startup read failed
    zoomInc, zoomDec, zoomClamped, hiddenWarnings, hiddenTransitions, panMoves,
    loadFailed

layoutVars == <<activeImageIndex, viewMode, visibleImages, annotationListVisible>>
imageVars == <<images, imageErrors, uploads>>
storeVars == <<annotations, selectedAnnotation, now, nonce>>
gestureVars == <<annotationMode, isPanning, lastMousePosition, isDrawing, lineStart>>
panVars == <<panPosition, panMoves>>
zoomVars == <<sliceZoomLevels, sliceInverted, zoomInc, zoomDec, zoomClamped>>
aiVars == <<showAISidebar, capturedImageBlob, isLoading, aiResult, hasAnalyzed,
            pendingCaptures, requests>>
lifeVars == <<storage, storageAccess, lifecycle>>
histVars == <<hiddenWarnings, hiddenTransitions, loadFailed>>
loadVars == <<pendingLoads, pendingPaints, surface>>

vars == <<layoutVars, imageVars, storeVars, gestureVars, panVars, zoomVars, aiVars,
          lifeVars, histVars, loadVars, toast>>

----------------------------------------------------------------------------
(* Program constants *)

NumSlots == 4
Slots == 0..(NumSlots - 1)

\* zoom factors in tenths
ZoomStep == 1
ZoomMax == 30
ZoomMin == 5
ZoomDefault == 10

\* hit-testing: distance threshold of a line, text height, padding, and the
\* advance width of one character of the 14px font
HitDistance == 10
TextHeight == 14
TextPadX == 2
TextPadBelow == 4
CharWidth == 7

\* JavaScript null / undefined
Null == <<>>
Some(x) == <<x>>

Min(a, b) == IF a < b THEN a ELSE b
Max(a, b) == IF a > b THEN a ELSE b

----------------------------------------------------------------------------
(* Bounds of the model *)

\* zoom steps counted per slot since its last reset
MaxZoomOps == 22
\* annotations ever created
MaxIds == 1
\* pointer-moves that pan, uploads, all-hidden warnings counted
MaxPanMoves == 1
MaxUploads == 2
MaxWarnings == 2
\* annotations ever created where overlapping annotations are selected
MaxSelectIds == 2
\* AI requests in flight at once
MaxRequests == 2
\* annotations ever created when the store is driven directly
MaxStoreIds == 3
\* ids drawn by earlier sessions, found in localStorage at startup
StoredIds == 2
MaxNewIds == 1
MaxTransformOps == 2
\* readings of the clock, and annotations ever created while it runs
MaxClock == 2
MaxListIds == 3
\* side of one grid cell of the layout, in CSS pixels
CellSize == 200
\* canvas-local points a pointer event can carry, and the slots pointed at
Points == {<<0, 0>>, <<50, 15>>}
EventSlots == {0, 1}
\* what the text prompt can return: null (cancelled), empty, or content
PromptResults == {[cancelled |-> TRUE, value |-> ""],
                  [cancelled |-> FALSE, value |-> ""],
                  [cancelled |-> FALSE, value |-> "ab"]}
NoPrompt == [cancelled |-> TRUE, value |-> ""]

----------------------------------------------------------------------------
(* JSON.stringify / JSON.parse of the annotation collection *)

KeyOrder == <<"id", "type", "imageIndex", "timestamp", "start", "end", "text", "position">>

\* an object becomes the sequence of its own properties, in property order
StringifyObject(a) ==
    LET keys == SelectSeq(KeyOrder, LAMBDA k : k \in DOMAIN a)
    IN  [i \in 1..Len(keys) |-> <<keys[i], a[keys[i]]>>]

ParseObject(pairs) ==
    [k \in {pairs[i][1] : i \in 1..Len(pairs)} |->
        LET i == CHOOSE j \in 1..Len(pairs) : pairs[j][1] = k IN pairs[i][2]]

Stringify(coll) ==
    [kind |-> "json", items |-> [i \in 1..Len(coll) |-> StringifyObject(coll[i])]]

\* a parse that yields the items newest first
ParseReversed(text) ==
    [i \in 1..Len(text.items) |-> ParseObject(text.items[Len(text.items) + 1 - i])]

Parse(text) == [i \in 1..Len(text.items) |-> ParseObject(text.items[i])]

----------------------------------------------------------------------------
(* Initial state: the useState initialisers *)

\* an image resource: ok, it decodes; slow, loading it takes longer than the
\* user's next action (otherwise its load completes before the next event)
SampleImage(i) == [url |-> <<"sample", i>>, ok |-> TRUE, slow |-> FALSE]

defaultAIResult == [diagnosis |-> "No diagnosis available", confidence_score |-> 0,
                    imgUrl |-> "", processing_time |-> 0]

\* the annotations listed for (and drawn on) one slot
imageAnnotations(coll, canvasIndex) ==
    SelectSeq(coll, LAMBDA a : a.imageIndex = canvasIndex)

\* What a canvas shows: nothing (a new element, or after clearRect), the
\* error text, or what img.onload paints from the values of one render pass:
\* the image scaled by the slot's zoom and moved by its pan, inverted or not,
\* the slot's annotations, and the selected one of them highlighted.
Blank == [kind |-> "blank"]
ErrorText == [kind |-> "error"]
Painting(imgs, zooms, pans, invs, coll, selected, canvasIndex) ==
    LET own == imageAnnotations(coll, canvasIndex)
    IN  [kind |-> "image", image |-> imgs[canvasIndex], zoom |-> zooms[canvasIndex],
         pan |-> pans[canvasIndex], inverted |-> invs[canvasIndex],
         annotations |-> own,
         selected |-> IF \E k \in 1..Len(own) : own[k].id = selected
                      THEN selected ELSE Null]

InitLayout ==
    /\ activeImageIndex = 0
    /\ viewMode = "quad"
    /\ visibleImages = [i \in Slots |-> TRUE]
    /\ annotationListVisible = Null

InitImages ==
    /\ images = [i \in Slots |-> SampleImage(i)]
    /\ imageErrors = [i \in Slots |-> FALSE]
    /\ uploads = 0
    /\ pendingLoads = {}
    /\ pendingPaints = {}

InitStore ==
    /\ annotations = <<>>
    /\ selectedAnnotation = Null
    /\ now = 0
    /\ nonce = 0

InitGesture ==
    /\ annotationMode = "none"
    /\ isPanning = FALSE
    /\ lastMousePosition = <<0, 0>>
    /\ isDrawing = FALSE
    /\ lineStart = <<0, 0>>
    /\ panPosition = [i \in Slots |-> <<0, 0>>]
    /\ panMoves = 0

InitZoom ==
    /\ sliceZoomLevels = [i \in Slots |-> ZoomDefault]
    /\ sliceInverted = [i \in Slots |-> FALSE]
    /\ zoomInc = [i \in Slots |-> 0]
    /\ zoomDec = [i \in Slots |-> 0]
    /\ zoomClamped = [i \in Slots |-> FALSE]

InitAI ==
    /\ showAISidebar = FALSE
    /\ capturedImageBlob = Null
    /\ isLoading = FALSE
    /\ aiResult = defaultAIResult
    /\ hasAnalyzed = FALSE
    /\ pendingCaptures = {}
    /\ requests = <<>>

InitNotice ==
    /\ toast = "none"
    /\ hiddenWarnings = 0
    /\ hiddenTransitions = 0
    /\ loadFailed = FALSE

\* the viewer after its mount effects ran against an empty localStorage
InitBooted ==
    /\ storage = Stringify(<<>>)
    /\ storageAccess = "ok"
    /\ lifecycle = "ready"

\* every panel of the initial quad view has been painted by the first render
InitSurface ==
    surface = [i \in Slots |->
                 Painting(images, sliceZoomLevels, panPosition, sliceInverted,
                          annotations, selectedAnnotation, i)]

InitReady ==
    /\ InitLayout /\ InitImages /\ InitStore /\ InitGesture /\ InitZoom /\ InitAI
    /\ InitNotice /\ InitBooted
    /\ InitSurface

----------------------------------------------------------------------------
(* Layout: which canvases exist and where *)

\* a count of the entries instead of the visible ones
CountEntries(vis) == Cardinality(Slots)

\* filter((v) => v).length
VisibleCount(vis) == Cardinality({i \in Slots : vis[i]})
AllHidden(vis) == \A i \in Slots : ~vis[i]

\* getVisibleIndices: the panels the ImageViewer renders
getVisibleIndices(mode, active, vis) ==
    IF mode = "single" THEN {active} ELSE {i \in Slots : vis[i]}

\* canvasRefs.current[i] is set: the single view stores its canvas at index 0
CanvasMounted(i, mode, vis) ==
    IF mode = "single" THEN i = 0 ELSE vis[i]

\* the slots the draw effect asks drawImage to draw
indicesToDraw(mode, active, vis) ==
    CASE mode = "single" -> {active}
      [] mode = "quad" -> Slots
      [] OTHER -> {i \in Slots : vis[i]}

\* the slots a pass of the draw effect paints: drawImage returns before
\* clearRect when canvasRefs.current[canvasIndex] is null (every slot has an
\* image URL, images[canvasIndex % images.length])
DrawnSlots(mode, active, vis) ==
    {i \in indicesToDraw(mode, active, vis) : CanvasMounted(i, mode, vis)}

\* number of grid columns chosen by getGridLayout
GridColumns(mode, vis) ==
    IF mode = "single" THEN 1
    ELSE IF mode = "quad" \/ VisibleCount(vis) = 4 THEN 2
    ELSE IF VisibleCount(vis) = 1 THEN 1 ELSE 2

\* a layout with two rows for every grid
GridRowsAlwaysTwo(mode, vis) ==
    IF mode = "single" THEN 1 ELSE 2

\* number of grid rows chosen by getGridLayout
GridRows(mode, vis) ==
    IF mode = "single" THEN 1
    ELSE IF mode = "quad" \/ VisibleCount(vis) = 4 THEN 2
    ELSE IF VisibleCount(vis) = 3 THEN 2
    ELSE IF VisibleCount(vis) = 2 \/ VisibleCount(vis) = 1 THEN 1
    ELSE 2

\* getBoundingClientRect of slot i's canvas: its cell of the grid
RectOrigin(i) ==
    IF viewMode = "single" THEN <<0, 0>>
    ELSE LET k == Cardinality({j \in Slots : visibleImages[j] /\ j < i})
             cols == GridColumns(viewMode, visibleImages)
         IN  <<(k % cols) * CellSize, (k \div cols) * CellSize>>

ClientPoint(i, p) == <<p[1] + RectOrigin(i)[1], p[2] + RectOrigin(i)[2]>>

----------------------------------------------------------------------------
(* Effects that run after a re-render *)

\* The draw effect: drawImage starts an image load for every drawn slot that
\* has a canvas and no error flag; the load's callbacks close over the
\* imageErrors of this render.  Loads of images that decode only paint; the
\* loads kept here are those whose image fails to decode.
StartedLoads(imgs, errs, mode, active, vis) ==
    { [slot |-> i, image |-> imgs[i], errors |-> errs] :
        i \in { j \in indicesToDraw(mode, active, vis) :
                  CanvasMounted(j, mode, vis) /\ ~errs[j] /\ ~imgs[j].ok } }

\* the canvas element of index i is the same one before and after the render:
\* the single view and the grid render different elements
SameCanvas(i) ==
    /\ CanvasMounted(i, viewMode, visibleImages)
    /\ CanvasMounted(i, viewMode', visibleImages')
    /\ (viewMode = "single") <=> (viewMode' = "single")

\* drawImage on every drawn canvas: clearRect, then the error text, or a new
\* Image whose onload paints with the values of this render.  The load of an
\* image that is not slow has completed before the next event; the load of a
\* slow one stays in flight.  A load whose canvas element was unmounted
\* paints nothing that is shown, and is dropped.
PaintEffect(rerun) ==
    LET drawn == IF rerun
                 THEN DrawnSlots(viewMode', activeImageIndex', visibleImages')
                 ELSE {}
        shown(i) == Painting(images', sliceZoomLevels', panPosition', sliceInverted',
                             annotations', selectedAnnotation', i)
        loading == {i \in drawn : ~imageErrors'[i] /\ images'[i].ok /\ images'[i].slow}
    IN  /\ surface' =
              [i \in Slots |->
                 IF i \in drawn
                 THEN IF imageErrors'[i] THEN ErrorText
                      ELSE IF images'[i].ok /\ ~images'[i].slow THEN shown(i)
                      ELSE Blank
                 ELSE IF SameCanvas(i) THEN surface[i] ELSE Blank]
        /\ pendingPaints' =
              {load \in pendingPaints : SameCanvas(load.slot)}
                 \cup {[slot |-> i, shows |-> shown(i)] : i \in loading}

\* rerun: some dependency of the effect got a new value or a new array
DrawEffect(rerun) ==
    /\ pendingLoads' =
          IF rerun
          THEN pendingLoads \cup StartedLoads(images', imageErrors', viewMode',
                                              activeImageIndex', visibleImages')
          ELSE pendingLoads
    /\ PaintEffect(rerun)

\* a save effect that writes the collection of the previous render
SaveEffectStale(changed) ==
    /\ storage' = IF changed /\ storageAccess = "ok" THEN Stringify(annotations) ELSE storage
    /\ UNCHANGED storageAccess

\* The save effect: after the collection changed, write it to localStorage;
\* setItem throws when the quota is exceeded ("full") or storage is not
\* accessible ("denied"): the failure is logged and the stored value stays.
SaveEffect(changed) ==
    /\ storage' = IF changed /\ storageAccess = "ok" THEN Stringify(annotations') ELSE storage
    /\ UNCHANGED storageAccess

Quiet == toast' = "none"

\* The load effect's try block that takes a failed read for a successful one
loadAnnotationsUnnoticed(text, access) ==
    IF access = "denied" \/ text.kind # "json"
    THEN [failed |-> FALSE, value |-> <<>>]
    ELSE [failed |-> FALSE, value |-> Parse(text)]

\* The load effect's try block: getItem throws when storage is not accessible,
\* JSON.parse throws on a corrupt value, nothing is set when no value is stored
loadAnnotations(text, access) ==
    IF access = "denied" \/ text.kind = "corrupt"
    THEN [failed |-> TRUE, value |-> <<>>]
    ELSE IF text.kind = "absent"
    THEN [failed |-> FALSE, value |-> <<>>]
    ELSE [failed |-> FALSE, value |-> Parse(text)]

\* the mount effects, in the order of their declaration, and the re-render
\* caused by the load effect's setAnnotations
LoadEffect ==
    LET loaded == loadAnnotations(storage, storageAccess)
    IN  /\ lifecycle = "mounted"
        /\ lifecycle' = "loaded"
        /\ annotations' = loaded.value
        /\ toast' = IF loaded.failed THEN "Error Loading Annotations" ELSE toast
        /\ loadFailed' = (storageAccess = "denied" \/ storage.kind = "corrupt")
        /\ UNCHANGED <<selectedAnnotation, now, nonce, storage, storageAccess,
                       hiddenWarnings, hiddenTransitions, layoutVars, imageVars,
                       gestureVars, panVars, zoomVars, aiVars, loadVars>>

\* the save effect of the first render: its closure holds the empty collection
MountSaveEffect ==
    /\ lifecycle = "loaded"
    /\ lifecycle' = "saved"
    /\ storage' = IF storageAccess = "ok" THEN Stringify(<<>>) ELSE storage
    /\ UNCHANGED <<storageAccess, toast, layoutVars, imageVars, storeVars, gestureVars,
                   panVars, zoomVars, aiVars, histVars, loadVars>>

\* the render with the loaded collection; its save effect writes it back
LoadedRender ==
    /\ lifecycle = "saved"
    /\ lifecycle' = "ready"
    /\ storage' = IF storageAccess = "ok" THEN Stringify(annotations) ELSE storage
    /\ UNCHANGED <<storageAccess, toast, layoutVars, imageVars, storeVars, gestureVars,
                   panVars, zoomVars, aiVars, histVars>>
    /\ DrawEffect(TRUE)

----------------------------------------------------------------------------
(* View-transform store: updateSliceZoom, toggleSliceInvert *)

ZoomActions == {"increase", "decrease", "reset"}

\* a reset that leaves the level where it is
NextZoomKeepsLevel(z, action) ==
    CASE action = "increase" -> Min(z + ZoomStep, ZoomMax)
      [] action = "decrease" -> Max(z - ZoomStep, ZoomMin)
      [] OTHER -> z

\* zoom steps without limits
NextZoomUnclamped(z, action) ==
    CASE action = "increase" -> z + ZoomStep
      [] action = "decrease" -> z - ZoomStep
      [] action = "reset" -> ZoomDefault
      [] OTHER -> z

\* the new zoom level of one slot
NextZoom(z, action) ==
    CASE action = "increase" -> Min(z + ZoomStep, ZoomMax)
      [] action = "decrease" -> Max(z - ZoomStep, ZoomMin)
      [] action = "reset" -> ZoomDefault
      [] OTHER -> z

updateSliceZoom(index, action) ==
    /\ lifecycle = "ready"
    /\ sliceZoomLevels' = [sliceZoomLevels EXCEPT ![index] = NextZoom(@, action)]
    /\ zoomInc' = [zoomInc EXCEPT ![index] =
                     IF action = "reset" THEN 0
                     ELSE IF action = "increase" THEN @ + 1 ELSE @]
    /\ zoomDec' = [zoomDec EXCEPT ![index] =
                     IF action = "reset" THEN 0
                     ELSE IF action = "decrease" THEN @ + 1 ELSE @]
    /\ zoomClamped' = [zoomClamped EXCEPT ![index] =
                     IF action = "reset" THEN FALSE
                     ELSE @ \/ (action = "increase" /\ sliceZoomLevels[index] + ZoomStep > ZoomMax)
                            \/ (action = "decrease" /\ sliceZoomLevels[index] - ZoomStep < ZoomMin)]
    /\ Quiet
    /\ UNCHANGED <<sliceInverted, layoutVars, imageVars, storeVars, gestureVars,
                   panVars, aiVars, lifeVars, histVars>>
    /\ DrawEffect(TRUE)

\* an invert toggle that flips every slot
toggleEveryInvert(index) ==
    /\ lifecycle = "ready"
    /\ sliceInverted' = [i \in Slots |-> ~sliceInverted[i]]
    /\ Quiet
    /\ UNCHANGED <<sliceZoomLevels, zoomInc, zoomDec, zoomClamped, layoutVars,
                   imageVars, storeVars, gestureVars, panVars, aiVars, lifeVars,
                   histVars>>
    /\ DrawEffect(TRUE)

toggleSliceInvert(index) ==
    /\ lifecycle = "ready"
    /\ sliceInverted' = [sliceInverted EXCEPT ![index] = ~@]
    /\ Quiet
    /\ UNCHANGED <<sliceZoomLevels, zoomInc, zoomDec, zoomClamped, layoutVars,
                   imageVars, storeVars, gestureVars, panVars, aiVars, lifeVars,
                   histVars>>
    /\ DrawEffect(TRUE)

\* the toolbar buttons act on the active slot
ZoomButton ==
    \E action \in ZoomActions :
        /\ action # "reset" =>
              zoomInc[activeImageIndex] + zoomDec[activeImageIndex] < MaxZoomOps
        /\ updateSliceZoom(activeImageIndex, action)

InvertButton == toggleSliceInvert(activeImageIndex)

----------------------------------------------------------------------------
(* Layout/visibility: removeImage, handleFileUpload, setViewMode,           *)
(* toggleAnnotationList, handleImageError                                   *)

\* index 0 instead of the index found
FirstEntry(vis) == 0

\* a findIndex that searches from the end
LastVisible(vis) ==
    IF AllHidden(vis) THEN -1
    ELSE CHOOSE i \in Slots : vis[i] /\ \A j \in Slots : vis[j] => i >= j

\* findIndex((visible) => visible): the lowest visible index, or -1
FirstVisible(vis) ==
    IF AllHidden(vis) THEN -1
    ELSE CHOOSE i \in Slots : vis[i] /\ \A j \in Slots : vis[j] => i <= j

removeImage(index) ==
    LET newVisibleImages == [visibleImages EXCEPT ![index] = FALSE]
        nextVisibleIndex == FirstVisible(newVisibleImages)
        visibleCount == VisibleCount(newVisibleImages)
        warns == AllHidden(newVisibleImages)
    IN  /\ lifecycle = "ready"
        /\ visibleImages' = newVisibleImages
        /\ activeImageIndex' =
             IF index = activeImageIndex /\ nextVisibleIndex # -1
             THEN nextVisibleIndex ELSE activeImageIndex
        /\ toast' = IF warns THEN "No Images Visible" ELSE "none"
        /\ viewMode' =
             IF visibleCount > 0 /\ visibleCount < 4 THEN "custom"
             ELSE IF visibleCount = 4 THEN "quad" ELSE viewMode
        /\ annotationListVisible' =
             IF annotationListVisible = Some(index) THEN Null ELSE annotationListVisible
        /\ hiddenWarnings' = IF warns THEN hiddenWarnings + 1 ELSE hiddenWarnings
        /\ hiddenTransitions' =
             IF warns /\ ~AllHidden(visibleImages)
             THEN hiddenTransitions + 1 ELSE hiddenTransitions
        /\ UNCHANGED <<imageVars, storeVars, gestureVars, panVars, zoomVars, aiVars,
                       lifeVars, loadFailed>>
        /\ DrawEffect(TRUE)

\* the Remove Image button of a rendered panel
RemoveButton ==
    \E index \in getVisibleIndices(viewMode, activeImageIndex, visibleImages) :
        /\ hiddenWarnings < MaxWarnings
        /\ removeImage(index)

\* an upload that leaves the error flags as they are
handleFileUploadKeepsErrors(sliceIndex, ok) ==
    /\ lifecycle = "ready"
    /\ uploads' = uploads + 1
    /\ images' = [images EXCEPT ![sliceIndex] =
                     [url |-> <<"blob", uploads + 1>>, ok |-> ok, slow |-> FALSE]]
    /\ imageErrors' = imageErrors
    /\ toast' = "Image Loaded"
    /\ UNCHANGED <<layoutVars, storeVars, gestureVars, panVars, zoomVars, aiVars,
                   lifeVars, histVars>>
    /\ DrawEffect(TRUE)

\* a file was chosen for sliceIndex; ok: the file decodes as an image
handleFileUpload(sliceIndex, ok) ==
    /\ lifecycle = "ready"
    /\ uploads' = uploads + 1
    /\ images' = [images EXCEPT ![sliceIndex] = [url |-> <<"blob", uploads + 1>>, ok |-> ok, slow |-> FALSE]]
    /\ imageErrors' = [imageErrors EXCEPT ![sliceIndex] = FALSE]
    /\ toast' = "Image Loaded"
    /\ UNCHANGED <<layoutVars, storeVars, gestureVars, panVars, zoomVars, aiVars,
                   lifeVars, histVars>>
    /\ DrawEffect(TRUE)

\* the upload button of a rendered panel, or the toolbar's (for the active slot)
UploadButtonFor(files) ==
    \E sliceIndex \in getVisibleIndices(viewMode, activeImageIndex, visibleImages)
                        \cup {activeImageIndex}, ok \in files :
        /\ uploads < MaxUploads
        /\ handleFileUpload(sliceIndex, ok)

\* the toolbar's Quad View / Single View buttons
setViewMode(mode) ==
    /\ lifecycle = "ready"
    /\ viewMode' = mode
    /\ Quiet
    /\ UNCHANGED <<activeImageIndex, visibleImages, annotationListVisible, imageVars,
                   storeVars, gestureVars, panVars, zoomVars, aiVars, lifeVars,
                   histVars>>
    /\ DrawEffect(mode # viewMode)

ViewModeButton == \E mode \in {"quad", "single"} : setViewMode(mode)

toggleAnnotationList(index) ==
    /\ lifecycle = "ready"
    /\ annotationListVisible' =
         IF annotationListVisible = Some(index) THEN Null ELSE Some(index)
    /\ Quiet
    /\ UNCHANGED <<activeImageIndex, viewMode, visibleImages, imageVars, storeVars,
                   gestureVars, panVars, zoomVars, aiVars, lifeVars, histVars,
                   loadVars>>

ListButton ==
    \E index \in getVisibleIndices(viewMode, activeImageIndex, visibleImages) :
        toggleAnnotationList(index)

\* img.onerror of a load started by an earlier run of the draw effect: it calls
\* the handleImageError of that render, which copies that render's imageErrors
handleImageError(load) ==
    /\ lifecycle = "ready"
    /\ load \in pendingLoads
    /\ imageErrors' = [load.errors EXCEPT ![load.slot] = TRUE]
    /\ toast' = "Image Loading Error"
    /\ pendingLoads' = (pendingLoads \ {load})
          \cup StartedLoads(images, imageErrors', viewMode, activeImageIndex,
                            visibleImages)
    /\ UNCHANGED <<images, uploads, layoutVars, storeVars, gestureVars, panVars,
                   zoomVars, aiVars, lifeVars, histVars>>
    /\ PaintEffect(TRUE)

\* img.onload of a load in flight: it paints its canvas with the values of
\* the render pass that started it (setImageDimensions re-renders, and no
\* dependency of the draw effect changes)
handleImageLoad(load) ==
    /\ lifecycle = "ready"
    /\ load \in pendingPaints
    /\ surface' = [surface EXCEPT ![load.slot] = load.shows]
    /\ pendingPaints' = pendingPaints \ {load}
    /\ Quiet
    /\ UNCHANGED <<layoutVars, imageVars, storeVars, gestureVars, panVars, zoomVars,
                   aiVars, lifeVars, histVars, pendingLoads>>

ImageLoaded == \E load \in pendingPaints : handleImageLoad(load)

ImageLoadError == \E load \in pendingLoads : handleImageError(load)

----------------------------------------------------------------------------
(* Annotation store: addAnnotation, deleteAnnotation, setSelectedAnnotation *)

\* an id made of the clock reading alone
NewIdClockOnly(t, n) == <<t, 0>>

\* `annotation-${Date.now()}-${Math.random()...}`: the clock reading and a
\* random suffix, taken as never drawn twice
NewId(t, n) == <<t, n>>

Ids(coll) == {coll[i].id : i \in 1..Len(coll)}

\* an addAnnotation that files every annotation under slot 0
addAnnotationUnderFirst(coll, imageIndex, annotation, t, n) ==
    Append(coll, annotation @@ [id |-> NewId(t, n), type |-> annotation.type,
                                imageIndex |-> 0, timestamp |-> t])

\* the collection after addAnnotation(imageIndex, annotation) when Date.now()
\* reads t
addAnnotation(coll, imageIndex, annotation, t, n) ==
    Append(coll, annotation @@ [id |-> NewId(t, n), type |-> annotation.type,
                                imageIndex |-> imageIndex, timestamp |-> t])

\* a deleteAnnotation that drops the oldest annotation
deleteOldestAnnotation(coll, annotationId) ==
    IF Len(coll) > 0 THEN Tail(coll) ELSE coll

\* the collection after deleteAnnotation(annotationId)
deleteAnnotation(coll, annotationId) ==
    SelectSeq(coll, LAMBDA a : a.id # annotationId)

\* a delete that leaves the selection as it was
SelectionKeptAfterDelete(selected, annotationId) == selected

\* the selection after deleteAnnotation(annotationId)
SelectionAfterDelete(selected, annotationId) == Null

\* deleteAnnotation as the handler of a delete button
DeleteAnnotation(annotationId) ==
    /\ lifecycle = "ready"
    /\ annotations' = deleteAnnotation(annotations, annotationId)
    /\ selectedAnnotation' = SelectionAfterDelete(selectedAnnotation, annotationId)
    /\ toast' = "Annotation Deleted"
    /\ UNCHANGED <<now, nonce, layoutVars, imageVars, gestureVars, panVars, zoomVars,
                   aiVars, lifecycle, histVars>>
    /\ SaveEffect(TRUE)
    /\ DrawEffect(TRUE)

\* addAnnotation as called by the interaction controller
AddAnnotation(imageIndex, annotation) ==
    /\ lifecycle = "ready"
    /\ annotations' = addAnnotation(annotations, imageIndex, annotation, now, nonce + 1)
    /\ nonce' = nonce + 1
    /\ Quiet
    /\ UNCHANGED <<selectedAnnotation, now, layoutVars, imageVars, gestureVars, panVars,
                   zoomVars, aiVars, lifecycle, histVars>>
    /\ SaveEffect(TRUE)
    /\ DrawEffect(TRUE)

\* setSelectedAnnotation(id), id an annotation id or null
setSelectedAnnotation(id) ==
    /\ lifecycle = "ready"
    /\ selectedAnnotation' = id
    /\ Quiet
    /\ UNCHANGED <<annotations, now, nonce, layoutVars, imageVars, gestureVars,
                   panVars, zoomVars, aiVars, lifeVars, histVars>>
    /\ DrawEffect(id # selectedAnnotation)

\* annotation.timestamp || 0
Timestamp(a) == IF "timestamp" \in DOMAIN a THEN a.timestamp ELSE 0

\* the list as handed to the panel, without the sort
unsortedAnnotations(list) == list

\* one step of the stable sort by (b.timestamp || 0) - (a.timestamp || 0): a
\* goes behind the entries that are not older than it
InsertNewestFirst(sorted, a) ==
    LET k == Cardinality({i \in 1..Len(sorted) : Timestamp(sorted[i]) >= Timestamp(a)})
    IN  SubSeq(sorted, 1, k) \o <<a>> \o SubSeq(sorted, k + 1, Len(sorted))

\* AnnotationList: [...annotations].sort(...), the rows of the panel
RECURSIVE sortedAnnotations(_)
sortedAnnotations(list) ==
    IF list = <<>> THEN <<>>
    ELSE InsertNewestFirst(sortedAnnotations(SubSeq(list, 1, Len(list) - 1)),
                           list[Len(list)])

\* the rows of the open annotation panel
ListRows ==
    IF annotationListVisible = Null THEN <<>>
    ELSE sortedAnnotations(imageAnnotations(annotations, annotationListVisible[1]))

\* Date.now() reads another value: time passes, or the clock is set back
ClockReads(t) ==
    /\ lifecycle = "ready"
    /\ t # now
    /\ now' = t
    /\ UNCHANGED <<annotations, selectedAnnotation, nonce, layoutVars, imageVars,
                   gestureVars, panVars, zoomVars, aiVars, lifeVars, histVars, loadVars,
                   toast>>

\* annotations listed by the open annotation panel, if its slot is rendered
ListedIds ==
    IF annotationListVisible = Null THEN {}
    ELSE LET index == annotationListVisible[1]
         IN  IF index \in getVisibleIndices(viewMode, activeImageIndex, visibleImages)
             THEN {annotations[i].id :
                     i \in {j \in 1..Len(annotations) : annotations[j].imageIndex = index}}
             ELSE {}

\* the delete buttons shown for the selected annotation (toolbar, panels) and
\* the per-row delete buttons of the annotation list
DeleteButton ==
    \E annotationId \in ListedIds \cup
           (IF selectedAnnotation = Null THEN {} ELSE {selectedAnnotation}) :
        DeleteAnnotation(annotationId)

\* a click on a row of the annotation list: onSelectAnnotation(annotation.id)
ListSelect ==
    \E annotationId \in ListedIds :
        /\ lifecycle = "ready"
        /\ selectedAnnotation' = annotationId
        /\ Quiet
        /\ UNCHANGED <<annotations, now, nonce, layoutVars, imageVars, gestureVars,
                       panVars, zoomVars, aiVars, lifeVars, histVars>>
        /\ DrawEffect(annotationId # selectedAnnotation)

----------------------------------------------------------------------------
(* Geometry / hit-testing: isPointInAnnotation *)

\* measureText(text).width of the 14px font
TextWidth(text) == CharWidth * Len(text)

\* a hit-test clipped to the segment between start and end
LineHitClipped(p, a) ==
    LET dx == a.end[1] - a.start[1]
        dy == a.end[2] - a.start[2]
        cross == dy * p[1] - dx * p[2] + a.end[1] * a.start[2] - a.end[2] * a.start[1]
        dot == (p[1] - a.start[1]) * dx + (p[2] - a.start[2]) * dy
    IN  /\ cross * cross < HitDistance * HitDistance * (dx * dx + dy * dy)
        /\ dot >= 0 /\ dot <= dx * dx + dy * dy

\* d = |cross| / lineLength < 10, compared without the square root; a line of
\* length 0 gives 0/0 = NaN in the source, and NaN < 10 is false
LineHit(p, a) ==
    LET dx == a.end[1] - a.start[1]
        dy == a.end[2] - a.start[2]
        cross == dy * p[1] - dx * p[2] + a.end[1] * a.start[2] - a.end[2] * a.start[1]
    IN  cross * cross < HitDistance * HitDistance * (dx * dx + dy * dy)

TextHit(p, a) ==
    /\ CanvasMounted(a.imageIndex, viewMode, visibleImages)
    /\ p[1] >= a.position[1] - TextPadX
    /\ p[1] <= a.position[1] + TextWidth(a.text) + TextPadX
    /\ p[2] >= a.position[2] - TextHeight
    /\ p[2] <= a.position[2] + TextPadBelow

isPointInAnnotation(p, a) ==
    IF a.type = "line" THEN LineHit(p, a)
    ELSE IF a.type = "text" THEN TextHit(p, a)
    ELSE FALSE

\* the annotations of canvasIndex hit by p, in storage order
clickedAnnotations(canvasIndex, p) ==
    SelectSeq(annotations,
              LAMBDA a : a.imageIndex = canvasIndex /\ isPointInAnnotation(p, a))

----------------------------------------------------------------------------
(* Interaction controller: handleMouseDown, handleMouseMove, handleMouseUp, *)
(* setAnnotationMode.  canvasIndex is the slot whose canvas got the event,  *)
(* p the pointer position relative to that canvas, text what the prompt     *)
(* returns, t the clock reading.                                            *)

AnnotationModes == {"none", "line", "text"}

\* the canvases the user can point at
PointerTargets == getVisibleIndices(viewMode, activeImageIndex, visibleImages)

NothingHappens ==
    /\ Quiet
    /\ UNCHANGED <<layoutVars, imageVars, storeVars, gestureVars, panVars, zoomVars,
                   aiVars, lifeVars, histVars, loadVars>>

\* pointer-down that hit an annotation: select it and return
MouseDownSelect(canvasIndex, p) ==
    /\ selectedAnnotation' = clickedAnnotations(canvasIndex, p)[1].id
    /\ Quiet
    /\ UNCHANGED <<annotations, now, nonce, layoutVars, imageVars, gestureVars,
                   panVars, zoomVars, aiVars, lifeVars, histVars>>
    /\ DrawEffect(selectedAnnotation' # selectedAnnotation)

MouseDownLine(canvasIndex, p) ==
    /\ isDrawing' = TRUE
    /\ lineStart' = p
    /\ activeImageIndex' = canvasIndex
    /\ Quiet
    /\ UNCHANGED <<annotationMode, isPanning, lastMousePosition, viewMode,
                   visibleImages, annotationListVisible, imageVars, storeVars, panVars,
                   zoomVars, aiVars, lifeVars, histVars>>
    /\ DrawEffect(canvasIndex # activeImageIndex)

MouseDownText(canvasIndex, p, text) ==
    /\ activeImageIndex' = canvasIndex
    /\ Quiet
    /\ UNCHANGED <<selectedAnnotation, now, gestureVars, viewMode, visibleImages,
                   annotationListVisible, imageVars, panVars, zoomVars, aiVars, lifecycle,
                   histVars>>
    /\ IF ~text.cancelled /\ text.value # ""
       THEN /\ annotations' = addAnnotation(annotations, canvasIndex,
                                 [type |-> "text", text |-> text.value, position |-> p],
                                 now, nonce + 1)
            /\ nonce' = nonce + 1
            /\ SaveEffect(TRUE)
            /\ DrawEffect(TRUE)
       ELSE /\ UNCHANGED <<annotations, nonce>>
            /\ SaveEffect(FALSE)
            /\ DrawEffect(canvasIndex # activeImageIndex)

MouseDownPan(canvasIndex, p) ==
    /\ isPanning' = TRUE
    /\ lastMousePosition' = ClientPoint(canvasIndex, p)
    /\ selectedAnnotation' = Null
    /\ activeImageIndex' = canvasIndex
    /\ Quiet
    /\ UNCHANGED <<annotationMode, isDrawing, lineStart, annotations, now, nonce,
                   viewMode, visibleImages, annotationListVisible, imageVars, panVars,
                   zoomVars, aiVars, lifeVars, histVars>>
    /\ DrawEffect(selectedAnnotation # Null \/ canvasIndex # activeImageIndex)

handleMouseDown(canvasIndex, p, text) ==
    /\ lifecycle = "ready"
    /\ IF ~CanvasMounted(canvasIndex, viewMode, visibleImages)
       THEN NothingHappens
       ELSE IF Len(clickedAnnotations(canvasIndex, p)) > 0
       THEN MouseDownSelect(canvasIndex, p)
       ELSE IF annotationMode = "line" THEN MouseDownLine(canvasIndex, p)
       ELSE IF annotationMode = "text" THEN MouseDownText(canvasIndex, p, text)
       ELSE MouseDownPan(canvasIndex, p)

handleMouseMove(canvasIndex, p) ==
    /\ lifecycle = "ready"
    /\ IF isPanning
       THEN LET c == ClientPoint(canvasIndex, p)
                deltaX == c[1] - lastMousePosition[1]
                deltaY == c[2] - lastMousePosition[2]
            IN  /\ panMoves' = panMoves + 1
                /\ panPosition' = [panPosition EXCEPT ![canvasIndex] =
                                     <<@[1] + deltaX, @[2] + deltaY>>]
                /\ lastMousePosition' = c
                /\ Quiet
                /\ UNCHANGED <<annotationMode, isPanning, isDrawing, lineStart,
                               layoutVars, imageVars, storeVars, zoomVars, aiVars,
                               lifeVars, histVars>>
                /\ DrawEffect(TRUE)
       ELSE NothingHappens

handleMouseUp(canvasIndex, p) ==
    /\ lifecycle = "ready"
    /\ IF isPanning
       THEN /\ isPanning' = FALSE
            /\ Quiet
            /\ UNCHANGED <<annotationMode, lastMousePosition, isDrawing, lineStart,
                           layoutVars, imageVars, storeVars, panVars, zoomVars, aiVars,
                           lifeVars, histVars, loadVars>>
       ELSE IF isDrawing /\ annotationMode = "line"
       THEN /\ isDrawing' = FALSE
            /\ Quiet
            /\ UNCHANGED <<selectedAnnotation, now, annotationMode, isPanning,
                           lastMousePosition, lineStart, layoutVars, imageVars, panVars,
                           zoomVars, aiVars, lifecycle, histVars>>
            /\ IF CanvasMounted(canvasIndex, viewMode, visibleImages)
               THEN /\ annotations' = addAnnotation(annotations, canvasIndex,
                                         [type |-> "line", start |-> lineStart, end |-> p],
                                         now, nonce + 1)
                    /\ nonce' = nonce + 1
                    /\ SaveEffect(TRUE)
                    /\ DrawEffect(TRUE)
               ELSE /\ UNCHANGED <<annotations, nonce, storage, storageAccess,
                                   loadVars>>
       ELSE NothingHappens

\* the toolbar's Pan Mode, Line Tool and text dialog buttons
setAnnotationMode(mode) ==
    /\ lifecycle = "ready"
    /\ annotationMode' = mode
    /\ Quiet
    /\ UNCHANGED <<isPanning, lastMousePosition, isDrawing, lineStart, layoutVars,
                   imageVars, storeVars, panVars, zoomVars, aiVars, lifeVars, histVars,
                   loadVars>>

ModeButton == \E mode \in AnnotationModes : setAnnotationMode(mode)

\* pointer events on the canvases of `slots` at `points`; the bounds stop the
\* events that would create an annotation after maxIds, pan after maxMoves
PointerDownOn(slots, points, maxIds) ==
    \E canvasIndex \in PointerTargets \cap slots, p \in points, text \in PromptResults :
        /\ annotationMode # "text" => text = NoPrompt
        /\ annotationMode = "text" => nonce < maxIds
        /\ handleMouseDown(canvasIndex, p, text)

PointerMoveOn(slots, points, maxMoves) ==
    \E canvasIndex \in PointerTargets \cap slots, p \in points :
        /\ isPanning => panMoves < maxMoves
        /\ handleMouseMove(canvasIndex, p)

PointerUpOn(slots, points, maxIds) ==
    \E canvasIndex \in PointerTargets \cap slots, p \in points :
        /\ (isDrawing /\ annotationMode = "line" /\ ~isPanning) => nonce < maxIds
        /\ handleMouseUp(canvasIndex, p)

PointerDown == PointerDownOn(EventSlots, Points, MaxIds)
PointerMove == PointerMoveOn(EventSlots, Points, MaxPanMoves)
PointerUp == PointerUpOn(EventSlots, Points, MaxIds)

----------------------------------------------------------------------------
(* AI analysis: toggleAISidebar, captureCanvasImage, runAnalysis,           *)
(* processImageWithAI.  A request is kept with what the network will answer *)
(* (response), whether the sidebar instance that issued it is still mounted *)
(* (live), and its stage: "fetch" while the request is outstanding, "frame" *)
(* while the animation-frame callback of updateAnalysisState is pending.    *)

\* what the network can answer: fetch rejects; a non-2xx status; a body that
\* is not JSON; a JSON array without the image object at [0]; a JSON array
\* with the image object and without the diagnosis, confidence and timing
\* entries; the complete array
Responses == {"network_error", "http_error", "invalid_json", "no_image",
              "missing_fields", "ok"}

\* processImageWithAI: it throws, or returns the object built from the array.
\* A property read from a missing array entry is undefined: the object is
\* modelled without that property.
processImageWithAI(response) ==
    CASE response \in {"network_error", "http_error", "invalid_json", "no_image"} ->
             [threw |-> TRUE, value |-> defaultAIResult]
      [] response = "missing_fields" ->
             [threw |-> FALSE, value |-> [imgUrl |-> "url"]]
      [] OTHER ->
             [threw |-> FALSE,
              value |-> [diagnosis |-> "negative", confidence_score |-> 90,
                         processing_time |-> 2, imgUrl |-> "url"]]

\* the sidebar renders: aiResult.diagnosis.toLowerCase() is evaluated once
\* hasAnalyzed is set, and throws when diagnosis is undefined
SidebarRenders(result, analyzed) == analyzed => "diagnosis" \in DOMAIN result

\* document.querySelector(`canvas[data-index="${index}"]`) finds a canvas
CanvasFound(index) ==
    IF viewMode = "single" THEN index = activeImageIndex ELSE visibleImages[index]

RemoveAt(seq, i) == [j \in 1..(Len(seq) - 1) |-> IF j < i THEN seq[j] ELSE seq[j + 1]]

Outstanding == {i \in 1..Len(requests) : requests[i].stage = "fetch"}

\* the Analyze with AI toolbar button and the sidebar's close button; closing
\* unmounts the sidebar, whose state is lost, opening mounts a new instance
toggleAISidebar ==
    /\ lifecycle = "ready"
    /\ showAISidebar' = ~showAISidebar
    /\ IF ~showAISidebar
       THEN /\ IF CanvasFound(activeImageIndex)
               THEN /\ pendingCaptures' = pendingCaptures \cup {activeImageIndex}
                    /\ UNCHANGED capturedImageBlob
               ELSE /\ capturedImageBlob' = Null
                    /\ UNCHANGED pendingCaptures
            /\ UNCHANGED <<isLoading, aiResult, hasAnalyzed, requests>>
       ELSE /\ isLoading' = FALSE
            /\ aiResult' = defaultAIResult
            /\ hasAnalyzed' = FALSE
            /\ requests' = [i \in 1..Len(requests) |-> [requests[i] EXCEPT !.live = FALSE]]
            /\ UNCHANGED <<capturedImageBlob, pendingCaptures>>
    /\ Quiet
    /\ UNCHANGED <<layoutVars, imageVars, storeVars, gestureVars, panVars, zoomVars,
                   lifeVars, histVars, loadVars>>

\* canvas.toBlob calls back: with a blob of the slot's canvas, or with null
CaptureDone(slot, ok) ==
    /\ lifecycle = "ready"
    /\ slot \in pendingCaptures
    /\ pendingCaptures' = pendingCaptures \ {slot}
    /\ capturedImageBlob' = IF ok THEN Some(slot) ELSE Null
    /\ Quiet
    /\ UNCHANGED <<showAISidebar, isLoading, aiResult, hasAnalyzed, requests,
                   layoutVars, imageVars, storeVars, gestureVars, panVars, zoomVars,
                   lifeVars, histVars, loadVars>>

\* runAnalysis up to its await; response: what the network is going to answer
runAnalysis(response) ==
    /\ lifecycle = "ready"
    /\ showAISidebar
    /\ IF capturedImageBlob = Null
       THEN /\ toast' = "Image Not Available"
            /\ UNCHANGED <<isLoading, requests>>
       ELSE /\ isLoading' = TRUE
            /\ requests' = Append(requests,
                               [live |-> TRUE, payload |-> capturedImageBlob,
                                response |-> response, stage |-> "fetch",
                                result |-> defaultAIResult])
            /\ Quiet
    /\ UNCHANGED <<showAISidebar, capturedImageBlob, aiResult, hasAnalyzed,
                   pendingCaptures, layoutVars, imageVars, storeVars, gestureVars,
                   panVars, zoomVars, lifeVars, histVars, loadVars>>

\* runAnalysis after its await, for request i.  The state setters of an
\* unmounted sidebar do nothing; its toast is still shown.
AnalysisDone(i) ==
    LET r == requests[i]
        out == processImageWithAI(r.response)
        succeeds == ~out.threw /\ storageAccess = "ok"
    IN  /\ lifecycle = "ready"
        /\ i \in Outstanding
        /\ toast' = IF succeeds THEN "Analysis Complete" ELSE "Analysis Failed"
        /\ IF r.live
           THEN /\ isLoading' = FALSE
                /\ aiResult' = IF succeeds THEN out.value ELSE aiResult
                /\ hasAnalyzed' = IF succeeds THEN TRUE ELSE hasAnalyzed
                /\ requests' = IF succeeds
                                THEN [requests EXCEPT ![i] =
                                        [@ EXCEPT !.stage = "frame", !.result = out.value]]
                                ELSE RemoveAt(requests, i)
                /\ lifecycle' = IF SidebarRenders(aiResult', hasAnalyzed')
                                THEN lifecycle ELSE "crashed"
           ELSE /\ requests' = RemoveAt(requests, i)
                /\ UNCHANGED <<isLoading, aiResult, hasAnalyzed, lifecycle>>
        /\ UNCHANGED <<showAISidebar, capturedImageBlob, pendingCaptures, storage,
                       storageAccess, layoutVars, imageVars, storeVars, gestureVars,
                       panVars, zoomVars, histVars, loadVars>>

\* the requestAnimationFrame callback of updateAnalysisState
AnimationFrame(i) ==
    LET r == requests[i]
    IN  /\ lifecycle = "ready"
        /\ i \in 1..Len(requests)
        /\ r.stage = "frame"
        /\ requests' = RemoveAt(requests, i)
        /\ IF r.live
           THEN /\ aiResult' = r.result
                /\ hasAnalyzed' = TRUE
           ELSE UNCHANGED <<aiResult, hasAnalyzed>>
        /\ Quiet
        /\ UNCHANGED <<showAISidebar, capturedImageBlob, isLoading, pendingCaptures,
                       layoutVars, imageVars, storeVars, gestureVars, panVars,
                       zoomVars, lifeVars, histVars, loadVars>>

SidebarButton == toggleAISidebar

CaptureCallback == \E slot \in pendingCaptures, ok \in BOOLEAN : CaptureDone(slot, ok)

\* the sidebar's Run AI Analysis button: disabled={isLoading || !imageBlob}
AnalyzeButton ==
    \E response \in Responses :
        /\ ~(isLoading \/ capturedImageBlob = Null)
        /\ Len(requests) < MaxRequests
        /\ runAnalysis(response)

\* a press on the Run AI Analysis button, enabled or not: a disabled button
\* does not call its onClick handler
AnalyzePress ==
    \E response \in Responses :
        /\ lifecycle = "ready"
        /\ showAISidebar
        /\ Len(requests) < MaxRequests
        /\ IF isLoading \/ capturedImageBlob = Null
           THEN NothingHappens
           ELSE runAnalysis(response)

ResponseArrives == \E i \in Outstanding : AnalysisDone(i)

FrameCallback == \E i \in 1..Len(requests) : AnimationFrame(i)

----------------------------------------------------------------------------
(* Specifications *)

\* The viewer core: interaction controller, annotation store and layout.
Init == InitReady

Next ==
    \/ PointerDown
    \/ PointerMove
    \/ PointerUp
    \/ ModeButton
    \/ DeleteButton
    \/ ViewModeButton

Spec == Init /\ [][Next]_vars

\* the annotations owned by slot s that the hit-test accepts at p, by position
\* in the collection
HitPositions(s, p) ==
    {i \in 1..Len(annotations) :
        annotations[i].imageIndex = s /\ isPointInAnnotation(p, annotations[i])}

FirstHit(s, p) ==
    annotations[CHOOSE i \in HitPositions(s, p) : \A j \in HitPositions(s, p) : i <= j]

\* C2 as stated: every pointer-down on a slot, whatever the annotation mode
\* and whether it hit an annotation or started a pan, line or text gesture,
\* leaves that slot the active slot.
C2_PointerDownActivates ==
    [][\A canvasIndex \in PointerTargets, p \in Points, text \in PromptResults :
          handleMouseDown(canvasIndex, p, text) => activeImageIndex' = canvasIndex]_vars

\* C31: in single view, for every active slot 0..3, a pointer-down on the
\* displayed surface is processed for the active slot: it selects the hit
\* annotation of that slot, or starts the gesture of the annotation mode (a
\* pan, a line, or the text prompt whose answer becomes an annotation).
C31_SingleViewPointerDown ==
    [][\A p \in Points, text \in PromptResults :
          LET S == activeImageIndex
              hit == clickedAnnotations(S, p)
          IN  (viewMode = "single" /\ handleMouseDown(S, p, text)) =>
                  IF Len(hit) > 0 THEN selectedAnnotation' = hit[1].id
                  ELSE IF annotationMode = "line" THEN isDrawing' /\ lineStart' = p
                  ELSE IF annotationMode = "text"
                  THEN (~text.cancelled /\ text.value # "") =>
                           Len(annotations') = Len(annotations) + 1
                  ELSE isPanning']_vars

\* C3 as stated: every change of the annotation mode leaves neither panning
\* nor line-drawing in progress.
C3_ModeChangeIdles ==
    [][annotationMode' # annotationMode => ~isPanning' /\ ~isDrawing']_vars

\* the collection grew by exactly one line annotation from start to end
LineAppended(start, end) ==
    /\ Len(annotations') = Len(annotations) + 1
    /\ SubSeq(annotations', 1, Len(annotations)) = annotations
    /\ annotations'[Len(annotations')].type = "line"
    /\ annotations'[Len(annotations')].start = start
    /\ annotations'[Len(annotations')].end = end

\* C12 as stated: in line mode a pointer-down at p that hits no annotation
\* starts a line at p, the pointer-up at q that follows appends exactly one
\* line annotation from p to q and returns the sub-state to idle, and the
\* pointer-moves in between change neither the collection nor a view
\* transform.
C12_LineGestureCommits ==
    [][\A canvasIndex \in PointerTargets, p \in Points :
          /\ (handleMouseDown(canvasIndex, p, NoPrompt) /\ annotationMode = "line"
                 /\ HitPositions(canvasIndex, p) = {})
              => isDrawing' /\ lineStart' = p /\ annotations' = annotations
          /\ (handleMouseMove(canvasIndex, p) /\ annotationMode = "line" /\ isDrawing)
              => /\ annotations' = annotations
                 /\ panPosition' = panPosition
                 /\ sliceZoomLevels' = sliceZoomLevels
                 /\ sliceInverted' = sliceInverted
          /\ (handleMouseUp(canvasIndex, p) /\ annotationMode = "line" /\ isDrawing)
              => /\ LineAppended(lineStart, p)
                 /\ ~isDrawing' /\ ~isPanning']_vars

----------------------------------------------------------------------------
(* Selection: annotations are drawn, typed, hit and deleted on two panels,  *)
(* in the grid and in the single view, without pan moves.                   *)

SelectDown == PointerDownOn(EventSlots, Points, MaxSelectIds)
SelectUp == PointerUpOn(EventSlots, Points, MaxSelectIds)

NextSelect ==
    \/ SelectDown
    \/ SelectUp
    \/ ModeButton
    \/ ViewModeButton
    \/ DeleteButton

SpecSelect == InitReady /\ [][NextSelect]_vars

\* C11 as stated: a pointer-down on a slot at a point that hits an annotation
\* of that slot selects the first hit annotation in storage order and starts
\* no gesture, in every annotation mode: the sub-state is idle afterwards,
\* no annotation is created and no pan offset changes.
C11_HitSelectsFirst ==
    [][\A canvasIndex \in PointerTargets, p \in Points, text \in PromptResults :
          (handleMouseDown(canvasIndex, p, text) /\ HitPositions(canvasIndex, p) # {})
          => /\ selectedAnnotation' = FirstHit(canvasIndex, p).id
             /\ isPanning' = isPanning /\ isDrawing' = isDrawing
             /\ annotations' = annotations
             /\ panPosition' = panPosition]_vars

\* the collection grew by exactly one text annotation of slot s anchored at p
TextAppended(s, p, content) ==
    /\ Len(annotations') = Len(annotations) + 1
    /\ SubSeq(annotations', 1, Len(annotations)) = annotations
    /\ annotations'[Len(annotations')].type = "text"
    /\ annotations'[Len(annotations')].imageIndex = s
    /\ annotations'[Len(annotations')].position = p
    /\ annotations'[Len(annotations')].text = content

\* C13 as stated: in text mode a pointer-down at p on a slot that hits no
\* annotation appends exactly one text annotation owned by the slot, anchored
\* at p, with the entered content when the prompt returns non-empty content,
\* and leaves the collection unchanged when the prompt is cancelled or empty.
C13_TextGestureCommits ==
    [][\A canvasIndex \in PointerTargets, p \in Points, text \in PromptResults :
          (handleMouseDown(canvasIndex, p, text) /\ annotationMode = "text"
              /\ HitPositions(canvasIndex, p) = {})
          => IF ~text.cancelled /\ text.value # ""
             THEN TextAppended(canvasIndex, p, text.value)
             ELSE annotations' = annotations]_vars

\* C27 as stated: a pan or line gesture affects only the slot that received
\* its pointer-down (the active slot, which the pointer-down set): while a
\* pan gesture is in progress pointer-move events change the pan offset of
\* that slot only, and the line committed by the pointer-up of a line gesture
\* is owned by that slot.
C27_GestureStaysOnItsSlot ==
    [][/\ \A canvasIndex \in PointerTargets, p \in Points :
             (isPanning /\ handleMouseMove(canvasIndex, p)) =>
                 \A j \in Slots \ {activeImageIndex} : panPosition'[j] = panPosition[j]
       /\ \A canvasIndex \in PointerTargets, p \in Points :
             (/\ ~isPanning /\ isDrawing /\ annotationMode = "line"
              /\ handleMouseUp(canvasIndex, p)
              /\ Len(annotations') = Len(annotations) + 1)
             => annotations'[Len(annotations')].imageIndex = activeImageIndex]_vars

----------------------------------------------------------------------------
(* Layout and visibility: panels are removed, the view mode is switched,    *)
(* files that decode are uploaded, annotation lists are opened, and clicks  *)
(* in pan mode make panels active.                                          *)

UploadImage == UploadButtonFor({TRUE})
ClickDown == PointerDownOn(Slots, {<<0, 0>>}, 0)
ClickUp == PointerUpOn(Slots, {<<0, 0>>}, 0)

NextLayout ==
    \/ RemoveButton
    \/ ViewModeButton
    \/ UploadImage
    \/ ListButton
    \/ ClickDown
    \/ ClickUp

SpecLayout == InitReady /\ [][NextLayout]_vars

\* C5 as stated: the all-hidden warning is emitted exactly once per transition
\* into the all-hidden state, and never by a removeImage made while all four
\* slots are already hidden.
C5_WarningOncePerTransition == hiddenWarnings = hiddenTransitions

\* C14: removeImage(i) sets slot i's visibility to false; when i was the
\* active slot, the active slot becomes the lowest-indexed slot still visible
\* and stays i when none is; when i was not active the active slot is
\* unchanged.
C14_RemoveMovesActive ==
    [][\A i \in Slots :
          removeImage(i) =>
              /\ ~visibleImages'[i]
              /\ (i = activeImageIndex /\ ~AllHidden(visibleImages')) =>
                    /\ visibleImages'[activeImageIndex']
                    /\ \A j \in Slots : j < activeImageIndex' => ~visibleImages'[j]
              /\ (i = activeImageIndex /\ AllHidden(visibleImages')) =>
                    activeImageIndex' = i
              /\ i # activeImageIndex => activeImageIndex' = activeImageIndex]_vars

\* the last visible slot, slot 2, was removed while it was active
C14_Witness ==
    /\ AllHidden(visibleImages)
    /\ activeImageIndex = 2
    /\ hiddenWarnings = 1 /\ toast = "No Images Visible"

\* C15: after a removeImage that leaves n slots visible the view mode is
\* custom when 1 <= n <= 3 and quad when n = 4, and removeImage never sets
\* the view mode to single; with 3 slots left the grid is 2x2, and the
\* removal that leaves no slot visible emits the warning.
C15_RemoveRecomputesViewMode ==
    [][\A i \in Slots :
          removeImage(i) =>
              LET n == Cardinality({j \in Slots : visibleImages'[j]})
              IN  /\ (1 <= n /\ n <= 3) => viewMode' = "custom"
                  /\ n = 4 => viewMode' = "quad"
                  /\ viewMode' = "single" => viewMode = "single"
                  /\ n = 3 => /\ GridColumns(viewMode', visibleImages') = 2
                              /\ GridRows(viewMode', visibleImages') = 2
                  /\ n = 0 => toast' = "No Images Visible"]_vars

\* slots 2, 0, 1 and 3 were removed from the quad view, in this order
C15_Witness ==
    /\ AllHidden(visibleImages)
    /\ viewMode = "custom"
    /\ activeImageIndex = 3
    /\ hiddenWarnings = 1 /\ hiddenTransitions = 1
    /\ toast = "No Images Visible"

\* C16 as stated: the slots drawn by the render pass of the current state are
\* determined by the view mode: exactly the active slot in single mode (for
\* every active index), all four slots in quad mode, exactly the visible
\* slots in custom mode.
C16_DrawnSetFollowsViewMode ==
    DrawnSlots(viewMode, activeImageIndex, visibleImages) =
        IF viewMode = "single" THEN {activeImageIndex}
        ELSE IF viewMode = "quad" THEN Slots
        ELSE {i \in Slots : visibleImages[i]}

\* C26: the grid geometry is a function of the view mode and the number of
\* visible slots, the first matching case deciding: single mode gives 1x1;
\* quad mode or 4 visible gives 2x2; 3 visible gives 2x2; 2 visible gives one
\* row of two columns; 1 visible gives 1x1.
C26_GridGeometry ==
    LET n == Cardinality({i \in Slots : visibleImages[i]})
        geometry == <<GridRows(viewMode, visibleImages), GridColumns(viewMode, visibleImages)>>
    IN  /\ viewMode = "single" => geometry = <<1, 1>>
        /\ (viewMode # "single" /\ (viewMode = "quad" \/ n = 4)) => geometry = <<2, 2>>
        /\ (viewMode = "custom" /\ n = 3) => geometry = <<2, 2>>
        /\ (viewMode = "custom" /\ n = 2) => geometry = <<1, 2>>
        /\ (viewMode = "custom" /\ n = 1) => geometry = <<1, 1>>

\* two panels were removed from the grid: slots 1 and 2 share one row
C26_Witness ==
    /\ viewMode = "custom"
    /\ visibleImages = [i \in Slots |-> i \in {1, 2}]
    /\ GridRows(viewMode, visibleImages) = 1
    /\ GridColumns(viewMode, visibleImages) = 2

\* C34: in every reachable state the active slot index is in 0..3 and,
\* whenever at least one slot is visible, the active slot is a visible slot.
C34_ActiveSlotVisible ==
    /\ activeImageIndex \in Slots
    /\ ~AllHidden(visibleImages) => visibleImages[activeImageIndex]

\* slot 1 was made active and removed, then slot 0, which had become active:
\* the active slot is slot 2
C34_Witness ==
    /\ visibleImages = [i \in Slots |-> i \in {2, 3}]
    /\ activeImageIndex = 2
    /\ viewMode = "single"

\* C6 as stated: when all four slots are hidden, uploading a file to a slot
\* makes that slot visible again, so the viewer leaves the all-hidden state.
C6_UploadRecoversAllHidden ==
    [][(uploads' # uploads /\ AllHidden(visibleImages)) => ~AllHidden(visibleImages')]_vars

----------------------------------------------------------------------------
(* Image loading: files that may or may not decode are uploaded, and the    *)
(* error callbacks of the loads started by the draw effect are delivered in *)
(* any order.                                                               *)

UploadFile == UploadButtonFor(BOOLEAN)

NextLoad ==
    \/ UploadFile
    \/ ImageLoadError
    \/ ViewModeButton

SpecLoad == InitReady /\ [][NextLoad]_vars

\* C8 as stated: an image-load failure on a slot sets that slot's error flag
\* and leaves the error flags of all other slots unchanged, whichever render
\* pass started the load and in whatever order the failures are delivered.
C8_LoadFailureIsLocal ==
    [][\A load \in pendingLoads :
          handleImageError(load) =>
              /\ imageErrors'[load.slot]
              /\ \A j \in Slots \ {load.slot} : imageErrors'[j] = imageErrors[j]]_vars

----------------------------------------------------------------------------
(* Hit-testing: one line annotation is stored for slot 0 and the user       *)
(* presses in pan mode at points near and far from it.                      *)

HitLines ==
    {<<<<0, 0>>, <<100, 0>>>>, <<<<100, 0>>, <<0, 0>>>>, <<<<0, 0>>, <<0, 100>>>>,
     <<<<0, 0>>, <<30, 40>>>>, <<<<0, 20>>, <<100, 20>>>>, <<<<60, 80>>, <<0, 0>>>>,
     <<<<10, 10>>, <<10, 10>>>>}

HitPoints ==
    {<<50, 5>>, <<50, 15>>, <<50, 10>>, <<50, 9>>, <<150, 5>>, <<10, 10>>, <<5, 120>>}

\* the viewer after one line was drawn on slot 0
InitHit ==
    /\ InitLayout /\ InitImages /\ InitGesture /\ InitZoom /\ InitAI /\ InitNotice
    /\ annotations \in
          {addAnnotation(<<>>, 0, [type |-> "line", start |-> l[1], end |-> l[2]], 0, 1) :
             l \in HitLines}
    /\ selectedAnnotation = Null
    /\ now = 0
    /\ nonce = 1
    /\ storage = Stringify(annotations)
    /\ storageAccess = "ok"
    /\ lifecycle = "ready"
    /\ InitSurface

HitDown == PointerDownOn({0}, HitPoints, 0)
HitUp == PointerUpOn({0}, HitPoints, 0)

NextHit ==
    \/ HitDown
    \/ HitUp

SpecHit == InitHit /\ [][NextHit]_vars

\* the square of the distance from p to the infinite line through start and
\* end, times the square of the line's length: |p - start|^2 * |end - start|^2
\* minus the square of the scalar product (Pythagoras on the projection)
DistanceSqTimesLengthSq(p, start, end) ==
    LET ax == p[1] - start[1]
        ay == p[2] - start[2]
        bx == end[1] - start[1]
        by == end[2] - start[2]
    IN  (ax * ax + ay * ay) * (bx * bx + by * by) - (ax * bx + ay * by) * (ax * bx + ay * by)

LengthSq(start, end) ==
    (end[1] - start[1]) * (end[1] - start[1]) + (end[2] - start[2]) * (end[2] - start[2])

\* C23: a pointer-down at p selects the stored line annotation, that is p hits
\* it, exactly when the perpendicular distance from p to the infinite line
\* through the annotation's start and end is less than 10 pixels, without
\* clipping to the segment; for the line (0,0)-(100,0) the point (50,5) is a
\* hit and the point (50,15) is not.
C23_LineHitByDistance ==
    [][\A p \in HitPoints :
          LET a == annotations[1]
              near == DistanceSqTimesLengthSq(p, a.start, a.end)
                          < 10 * 10 * LengthSq(a.start, a.end)
              selects == /\ selectedAnnotation' = a.id
                         /\ isPanning' = isPanning
                         /\ activeImageIndex' = activeImageIndex
          IN  (handleMouseDown(0, p, NoPrompt) /\ a.start # a.end) =>
                  /\ selects <=> near
                  /\ (a.start = <<0, 0>> /\ a.end = <<100, 0>> /\ p = <<50, 5>>) => selects
                  /\ (a.start = <<0, 0>> /\ a.end = <<100, 0>> /\ p = <<50, 15>>) => ~selects]_vars

\* on the line (0,0)-(100,0): a press at (50,15) missed it and started a pan,
\* a later press hit it
C23_Witness ==
    /\ Len(annotations) = 1
    /\ annotations[1].start = <<0, 0>> /\ annotations[1].end = <<100, 0>>
    /\ lastMousePosition = ClientPoint(0, <<50, 15>>)
    /\ ~isPanning
    /\ selectedAnnotation = annotations[1].id

----------------------------------------------------------------------------
(* The AI sidebar: it is opened and closed, the canvas capture and the       *)
(* requests complete in any order, with any answer of the network.          *)

NextAI ==
    \/ SidebarButton
    \/ CaptureCallback
    \/ AnalyzeButton
    \/ ResponseArrives
    \/ FrameCallback

SpecAI == InitReady /\ [][NextAI]_vars

FailedResponses == Responses \ {"ok"}

----------------------------------------------------------------------------
(* The AI sidebar with the analyze button pressed in every state of the     *)
(* open sidebar, also while the button is disabled.                         *)

NextAIPress ==
    \/ SidebarButton
    \/ CaptureCallback
    \/ AnalyzePress
    \/ ResponseArrives
    \/ FrameCallback

SpecAIPress == InitReady /\ [][NextAIPress]_vars

----------------------------------------------------------------------------
(* The AI sidebar while the user clicks on the panels of the grid: the      *)
(* active slot changes with the sidebar open or closed.                     *)

SwitchDown == PointerDownOn(EventSlots, {<<0, 0>>}, 0)
SwitchUp == PointerUpOn(EventSlots, {<<0, 0>>}, 0)

NextAISwitch ==
    \/ SidebarButton
    \/ CaptureCallback
    \/ AnalyzeButton
    \/ ResponseArrives
    \/ FrameCallback
    \/ SwitchDown
    \/ SwitchUp

SpecAISwitch == InitReady /\ [][NextAISwitch]_vars

----------------------------------------------------------------------------
(* Startup: the component mounts with whatever an earlier session left in   *)
(* localStorage: nothing, a value that is not JSON, or a saved collection.  *)

SamplePayloads ==
    {[type |-> "line", start |-> <<0, 0>>, end |-> <<50, 15>>],
     [type |-> "text", text |-> "ab", position |-> <<0, 0>>]}

\* annotations as addAnnotation builds them
SampleAnnotations(ids) ==
    {addAnnotation(<<>>, s, payload, 0, n)[1] :
        s \in EventSlots, payload \in SamplePayloads, n \in ids}

StoredCollections ==
    {<<>>} \cup {<<a>> : a \in SampleAnnotations(1..StoredIds)}
           \cup {<<a, b>> : a \in SampleAnnotations({1}),
                            b \in SampleAnnotations(2..StoredIds)}

StoredValues ==
    {[kind |-> "absent"], [kind |-> "corrupt"]}
        \cup {Stringify(coll) : coll \in StoredCollections}

InitStartup ==
    /\ InitLayout /\ InitImages /\ InitGesture /\ InitZoom /\ InitAI /\ InitNotice
    /\ annotations = <<>>
    /\ selectedAnnotation = Null
    /\ now = 0
    /\ nonce = StoredIds
    /\ storage \in StoredValues
    /\ storageAccess \in {"ok", "full", "denied"}
    /\ lifecycle = "mounted"
    /\ InitSurface

NextStartup ==
    \/ LoadEffect
    \/ MountSaveEffect
    \/ LoadedRender

SpecStartup == InitStartup /\ [][NextStartup]_vars

\* C7 as stated: when reading or parsing the persisted collection fails at
\* startup, the viewer continues with an empty collection and emits no
\* user-visible notice.
C7_LoadFailureOnlyLogged ==
    loadFailed => annotations = <<>> /\ toast = "none"

\* C7: when reading or parsing the persisted collection fails at startup, the
\* viewer continues with an empty collection, and besides logging the failure
\* it emits the user-visible notice "Error Loading Annotations".
C7_LoadFailureEmptyAndNoticed ==
    loadFailed => annotations = <<>> /\ toast = "Error Loading Annotations"

\* startup completed after the stored value could not be read or parsed
C7_Witness ==
    /\ loadFailed /\ lifecycle = "ready"
    /\ annotations = <<>> /\ toast = "Error Loading Annotations"

\* C28 as stated: startup never overwrites saved annotations: when a non-empty
\* collection was persisted before startup, no step of the initialization
\* (load effect, save effect, re-render) changes the value stored under the
\* persistence key.
C28_StartupKeepsStorage ==
    [][(lifecycle # "ready" /\ storage.kind = "json" /\ Len(storage.items) > 0)
          => storage' = storage]_vars

\* C18: when the stored value is the serialization of a collection of size k,
\* the load effect at startup yields a collection of size k with the same
\* identifiers, owners and payloads in the same order.
C18_ReloadRestoresCollection ==
    [][\A coll \in StoredCollections :
          (LoadEffect /\ storageAccess # "denied" /\ storage = Stringify(coll)) =>
              /\ Len(annotations') = Len(coll)
              /\ \A i \in 1..Len(coll) :
                    /\ annotations'[i].id = coll[i].id
                    /\ annotations'[i].imageIndex = coll[i].imageIndex
                    /\ annotations'[i].timestamp = coll[i].timestamp
                    /\ DOMAIN annotations'[i] = DOMAIN coll[i]
                    /\ \A k \in DOMAIN coll[i] : annotations'[i][k] = coll[i][k]]_vars

\* a saved line of slot 0 and a saved text of slot 1 were loaded, in this order
C18_Witness ==
    /\ lifecycle = "loaded"
    /\ storage.kind = "json" /\ Len(storage.items) = 2
    /\ Len(annotations) = 2
    /\ annotations[1].type = "line" /\ annotations[1].imageIndex = 0
    /\ annotations[1].id = NewId(0, 1)
    /\ annotations[2].type = "text" /\ annotations[2].imageIndex = 1
    /\ annotations[2].id = NewId(0, 2)

----------------------------------------------------------------------------
(* A session: the component mounts on what an earlier session left, with    *)
(* localStorage writable, full or inaccessible, and annotations are then    *)
(* added, selected and deleted.                                             *)

SessionAdd ==
    \E imageIndex \in EventSlots, payload \in SamplePayloads :
        /\ nonce < StoredIds + MaxNewIds
        /\ AddAnnotation(imageIndex, payload)

SessionDelete == \E annotationId \in Ids(annotations) : DeleteAnnotation(annotationId)

SessionSelect == \E id \in Ids(annotations) : setSelectedAnnotation(id)

NextSession ==
    \/ LoadEffect
    \/ MountSaveEffect
    \/ LoadedRender
    \/ SessionAdd
    \/ SessionDelete
    \/ SessionSelect

SpecSession == InitStartup /\ [][NextSession]_vars

\* C17: after every add or remove of an annotation, once the save has run,
\* the value stored under the persistence key is the serialization of the
\* full current collection in insertion order (parsing it gives the
\* collection back); a failing write leaves the stored value as it was,
\* leaves the collection and the selection as the handler set them, and
\* raises nothing (the viewer stays ready, no notice is added).
C17_SaveFollowsCollection ==
    [][/\ \A imageIndex \in EventSlots, payload \in SamplePayloads :
             AddAnnotation(imageIndex, payload) =>
                 /\ storageAccess = "ok" =>
                       /\ storage'.kind = "json"
                       /\ Len(storage'.items) = Len(annotations) + 1
                       /\ Parse(storage') = annotations'
                 /\ storageAccess # "ok" =>
                       /\ storage' = storage
                       /\ Len(annotations') = Len(annotations) + 1
                       /\ SubSeq(annotations', 1, Len(annotations)) = annotations
                       /\ selectedAnnotation' = selectedAnnotation
                       /\ lifecycle' = "ready" /\ toast' = "none"
       /\ \A annotationId \in Ids(annotations) :
             DeleteAnnotation(annotationId) =>
                 /\ storageAccess = "ok" =>
                       /\ storage'.kind = "json"
                       /\ Len(storage'.items) = Len(annotations) - 1
                       /\ Parse(storage') = annotations'
                 /\ storageAccess # "ok" =>
                       /\ storage' = storage
                       /\ Len(annotations') = Len(annotations) - 1
                       /\ annotationId \notin Ids(annotations')
                       /\ selectedAnnotation' = Null
                       /\ lifecycle' = "ready" /\ toast' = "Annotation Deleted"]_vars

C17_Witness ==
    /\ lifecycle = "ready"
    /\ storageAccess = "full"
    /\ Len(annotations) = 3
    /\ storage.kind = "json" /\ Len(storage.items) = 2
    /\ selectedAnnotation # Null

----------------------------------------------------------------------------
(* Selection: two annotations are stored; the user presses on the panels in *)
(* pan mode, opens the annotation lists and clicks their rows.              *)

InitPick ==
    /\ InitLayout /\ InitImages /\ InitGesture /\ InitZoom /\ InitAI /\ InitNotice
    /\ annotations \in {coll \in StoredCollections : Len(coll) = 2}
    /\ selectedAnnotation = Null
    /\ now = 0
    /\ nonce = StoredIds
    /\ storage = Stringify(annotations)
    /\ storageAccess = "ok"
    /\ lifecycle = "ready"
    /\ InitSurface

PickDown == PointerDownOn(EventSlots, Points, 0)
PickUp == PointerUpOn(EventSlots, Points, 0)
PickList == \E index \in EventSlots : toggleAnnotationList(index)

NextPick ==
    \/ PickDown
    \/ PickUp
    \/ PickList
    \/ ListSelect

SpecPick == InitPick /\ [][NextPick]_vars

\* the positions of the annotations drawn as selected: annotation.id equals
\* the selected id
SelectedPositions(coll, selected) ==
    {i \in 1..Len(coll) : selected # Null /\ coll[i].id = selected}

\* C25: at most one annotation is selected at any time; after a pointer-down
\* or a click on a list row selected annotation B, the selection is B alone,
\* and an annotation A that was selected before is no longer selected.
C25_SingleSelection ==
    /\ [](Cardinality(SelectedPositions(annotations, selectedAnnotation)) <= 1)
    /\ [][\A canvasIndex \in PointerTargets, p \in Points :
            (/\ handleMouseDown(canvasIndex, p, NoPrompt)
             /\ CanvasMounted(canvasIndex, viewMode, visibleImages)
             /\ HitPositions(canvasIndex, p) # {})
            => LET B == FirstHit(canvasIndex, p)
                   after == SelectedPositions(annotations', selectedAnnotation')
               IN  /\ Cardinality(after) = 1
                   /\ \A i \in after : annotations'[i] = B
                   /\ \A i \in SelectedPositions(annotations, selectedAnnotation) :
                         annotations[i] # B => i \notin after]_vars
    /\ [][\A annotationId \in Ids(annotations) :
            (ListSelect /\ selectedAnnotation' = annotationId /\ annotationId \in ListedIds)
            => LET after == SelectedPositions(annotations', selectedAnnotation')
               IN  /\ Cardinality(after) = 1
                   /\ \A i \in after : annotations'[i].id = annotationId
                   /\ \A i \in SelectedPositions(annotations, selectedAnnotation) :
                         annotations[i].id # annotationId => i \notin after]_vars

\* a text of slot 0 and a text of slot 1 are stored, the list of slot 0 is
\* open and the text of slot 1 is the selected annotation
C25_Witness ==
    /\ Len(annotations) = 2
    /\ annotations[1].type = "text" /\ annotations[1].imageIndex = 0
    /\ annotations[2].type = "text" /\ annotations[2].imageIndex = 1
    /\ annotationListVisible = Some(0)
    /\ selectedAnnotation = annotations[2].id
    /\ SelectedPositions(annotations, selectedAnnotation) = {2}

----------------------------------------------------------------------------
(* Uploads over a stored collection: files that may or may not decode are   *)
(* uploaded, image loads fail, and annotations are selected by presses on   *)
(* the panels.                                                              *)

\* the viewer after a text was placed on slot 0 and one on slot 1
InitUpload ==
    /\ InitLayout /\ InitImages /\ InitGesture /\ InitZoom /\ InitAI /\ InitNotice
    /\ annotations =
          addAnnotation(
              addAnnotation(<<>>, 0, [type |-> "text", text |-> "ab",
                                      position |-> <<0, 0>>], 0, 1),
              1, [type |-> "text", text |-> "ab", position |-> <<0, 0>>], 0, 2)
    /\ selectedAnnotation = Null
    /\ now = 0
    /\ nonce = 2
    /\ storage = Stringify(annotations)
    /\ storageAccess = "ok"
    /\ lifecycle = "ready"
    /\ InitSurface

\* the upload input of the panels pointed at
UploadPanel ==
    \E sliceIndex \in PointerTargets \cap EventSlots, ok \in BOOLEAN :
        /\ uploads < MaxUploads
        /\ handleFileUpload(sliceIndex, ok)

UploadDown == PointerDownOn(EventSlots, Points, 0)
UploadUp == PointerUpOn(EventSlots, {<<0, 0>>}, 0)

NextUpload ==
    \/ UploadPanel
    \/ ImageLoadError
    \/ UploadDown
    \/ UploadUp

SpecUpload == InitUpload /\ [][NextUpload]_vars

\* C36: an upload to slot S replaces S's image resource and clears S's error
\* flag, so that a slot in error state shows the uploaded image when the file
\* decodes; the image resources and error flags of all other slots, the
\* annotation collection and the selection are unchanged.
C36_UploadFrame ==
    [][\A S \in Slots, ok \in BOOLEAN :
          handleFileUpload(S, ok) =>
              /\ images'[S] # images[S]
              /\ \A j \in Slots : images'[j] # images'[S] \/ j = S
              /\ ~imageErrors'[S]
              /\ (ok /\ S \in DrawnSlots(viewMode, activeImageIndex, visibleImages))
                    => (surface'[S].kind = "image" /\ surface'[S].image = images'[S])
              /\ \A j \in Slots \ {S} : /\ images'[j] = images[j]
                                          /\ imageErrors'[j] = imageErrors[j]
              /\ annotations' = annotations
              /\ selectedAnnotation' = selectedAnnotation]_vars

\* an annotation is selected, slot 1 is in error state after the upload of a
\* file that did not decode, and a file was then uploaded to slot 0
C36_Witness ==
    /\ selectedAnnotation # Null /\ Len(annotations) = 2
    /\ imageErrors = [i \in Slots |-> i = 1]
    /\ images[1].url = <<"blob", 1>>
    /\ images[0].url = <<"blob", 2>>
    /\ surface[0].kind = "image" /\ surface[0].image = images[0]
    /\ toast = "Image Loaded"

----------------------------------------------------------------------------
(* Selection and deletion: a stored collection is selected from by presses  *)
(* on the panels and clicks in the annotation lists, annotations are        *)
(* deleted, panels are removed and images uploaded.                         *)

ValidDown == PointerDownOn(EventSlots, Points, 0)
ValidUp == PointerUpOn(EventSlots, {<<0, 0>>}, 0)
\* the Remove Image button of the panels pointed at
ValidRemove == \E index \in PointerTargets \cap EventSlots : removeImage(index)
\* the toolbar's upload button
ValidUpload == uploads < MaxUploads /\ handleFileUpload(activeImageIndex, TRUE)

NextValid ==
    \/ ValidDown
    \/ ValidUp
    \/ PickList
    \/ ListSelect
    \/ DeleteButton
    \/ ValidRemove
    \/ ValidUpload

SpecValid == InitPick /\ [][NextValid]_vars

\* C32: in every reachable state the selection is null or the id of an
\* annotation of the collection, whatever pointer events, list clicks,
\* deletions, slot removals and uploads came before.
C32_SelectionValid ==
    selectedAnnotation = Null \/ selectedAnnotation \in Ids(annotations)

\* an annotation was selected, then the other one was deleted from a list, a
\* second selection was made and a panel was removed
C32_Witness ==
    /\ Len(annotations) = 1
    /\ selectedAnnotation = annotations[1].id
    /\ \E i \in Slots : ~visibleImages[i]

\* C33: deleteAnnotation(id) of an annotation other than the selected one
\* leaves the selection unchanged.
C33_DeleteOfOtherKeepsSelection ==
    [][\A annotationId \in Ids(annotations) :
          (DeleteAnnotation(annotationId) /\ annotationId # selectedAnnotation)
              => selectedAnnotation' = selectedAnnotation]_vars

----------------------------------------------------------------------------
(* The annotation store driven directly: annotations are added, any id,     *)
(* present or not, is deleted or selected.                                  *)

IdPool == {NewId(0, n) : n \in 1..MaxStoreIds}

StoreAdd ==
    \E imageIndex \in EventSlots, payload \in SamplePayloads :
        /\ nonce < MaxStoreIds
        /\ AddAnnotation(imageIndex, payload)

StoreDelete == \E annotationId \in IdPool : DeleteAnnotation(annotationId)

StoreSelect == \E id \in IdPool \cup {Null} : setSelectedAnnotation(id)

NextStore ==
    \/ StoreAdd
    \/ StoreDelete
    \/ StoreSelect

SpecStore == InitReady /\ [][NextStore]_vars

\* C10: deleteAnnotation(id) removes exactly the annotation with that id and
\* keeps the others in their relative order; when no annotation has that id
\* the collection is unchanged; when id was the selected annotation the
\* selection becomes null.
C10_DeleteRemovesExactlyThat ==
    [][\A annotationId \in IdPool :
          DeleteAnnotation(annotationId) =>
              /\ annotationId \in Ids(annotations) =>
                    \E i \in 1..Len(annotations) :
                        /\ annotations[i].id = annotationId
                        /\ annotations' = RemoveAt(annotations, i)
              /\ annotationId \notin Ids(annotations) => annotations' = annotations
              /\ selectedAnnotation = annotationId => selectedAnnotation' = Null]_vars

\* C19: after addAnnotation(S, payload) the annotations listed for slot S
\* (the collection filtered by owner S, in insertion order) contain the new
\* annotation exactly once, as the last entry and with the payload; after
\* deleteAnnotation(id) no slot's listing contains an annotation with that id.
C19_ListingFollowsStore ==
    [][/\ \A S \in EventSlots, payload \in SamplePayloads :
             AddAnnotation(S, payload) =>
                 LET listing == imageAnnotations(annotations', S)
                     fresh == {i \in 1..Len(listing) : listing[i].id \notin Ids(annotations)}
                 IN  /\ Cardinality(fresh) = 1
                     /\ fresh = {Len(listing)}
                     /\ \A k \in DOMAIN payload : listing[Len(listing)][k] = payload[k]
                     /\ Len(listing) = Len(imageAnnotations(annotations, S)) + 1
       /\ \A annotationId \in IdPool :
             DeleteAnnotation(annotationId) =>
                 \A S \in Slots :
                     annotationId \notin Ids(imageAnnotations(annotations', S))]_vars

\* two annotations were added to slot 1 and the second one was deleted: the
\* listing of slot 1 holds the first one only
C19_Witness ==
    /\ toast = "Annotation Deleted"
    /\ nonce = 2
    /\ Len(imageAnnotations(annotations, 1)) = 1
    /\ imageAnnotations(annotations, 1)[1].id = NewId(0, 1)
    /\ imageAnnotations(annotations, 0) = <<>>

\* the second of three annotations was deleted: the first and the third stay,
\* in this order
C10_Witness ==
    /\ toast = "Annotation Deleted"
    /\ nonce = 3
    /\ Len(annotations) = 2
    /\ annotations[1].id = NewId(0, 1) /\ annotations[2].id = NewId(0, 3)
    /\ selectedAnnotation = Null

----------------------------------------------------------------------------
(* The annotation lists: annotations are added while the clock runs, the    *)
(* lists of the panels are opened and rows are deleted.                     *)

ListAdd ==
    \E imageIndex \in EventSlots :
        /\ nonce < MaxListIds
        /\ AddAnnotation(imageIndex, [type |-> "text", text |-> "ab",
                                      position |-> <<0, 0>>])

ClockStep == \E t \in 0..MaxClock : ClockReads(t)

NextList ==
    \/ ListAdd
    \/ ClockStep
    \/ PickList
    \/ DeleteButton

SpecList == InitReady /\ [][NextList]_vars

\* C37: the annotation list panel of a slot shows exactly the annotations
\* owned by that slot, each once, ordered by non-increasing creation timestamp
\* (newest first), while the stored collection keeps insertion order: an add
\* appends, a delete keeps the order of the others.
C37_ListNewestFirst ==
    /\ [](annotationListVisible # Null =>
            LET S == annotationListVisible[1]
                owned == {i \in 1..Len(annotations) : annotations[i].imageIndex = S}
            IN  /\ Len(ListRows) = Cardinality(owned)
                /\ \A i \in owned :
                      Cardinality({r \in 1..Len(ListRows) : ListRows[r] = annotations[i]}) = 1
                /\ \A r \in 1..Len(ListRows) : ListRows[r].imageIndex = S
                /\ \A q, r \in 1..Len(ListRows) :
                      q < r => ListRows[q].timestamp >= ListRows[r].timestamp)
    /\ [][\A i, j \in 1..Len(annotations) :
            (i < j /\ annotations[i].id \in Ids(annotations')
                   /\ annotations[j].id \in Ids(annotations'))
            => \E k, l \in 1..Len(annotations') :
                  /\ k < l
                  /\ annotations'[k] = annotations[i]
                  /\ annotations'[l] = annotations[j]]_vars
    /\ [][\A l \in 1..Len(annotations') :
            annotations'[l].id \notin Ids(annotations) => l = Len(annotations')]_vars

\* the list of slot 0 is open on two annotations, the second one created
\* after the first: the panel shows the second one first
C37_Witness ==
    /\ annotationListVisible = Some(0)
    /\ Len(annotations) = 2 /\ Len(ListRows) = 2
    /\ annotations[1].timestamp < annotations[2].timestamp
    /\ ListRows[1] = annotations[2] /\ ListRows[2] = annotations[1]

----------------------------------------------------------------------------
(* The view-transform store under the toolbar's zoom and invert buttons.    *)
(* The buttons act on the active slot: the behaviours start after a click   *)
(* in pan mode on one of the four panels of the grid made it active.        *)

AfterClickOn(s) ==
    /\ viewMode = "quad"
    /\ visibleImages = [i \in Slots |-> TRUE]
    /\ annotationListVisible = Null
    /\ activeImageIndex = s
    /\ InitImages /\ InitStore /\ InitZoom /\ InitAI /\ InitNotice /\ InitBooted
    /\ annotationMode = "none"
    /\ isPanning = FALSE
    /\ lastMousePosition = ClientPoint(s, <<0, 0>>)
    /\ isDrawing = FALSE
    /\ lineStart = <<0, 0>>
    /\ panPosition = [i \in Slots |-> <<0, 0>>]
    /\ panMoves = 0
    /\ InitSurface

InitZoomView == \E s \in Slots : AfterClickOn(s)

NextZoomView ==
    \/ ZoomButton
    \/ InvertButton

SpecZoom == InitZoomView /\ [][NextZoomView]_vars

----------------------------------------------------------------------------
(* The view transforms together: pan gestures on the panels of the grid and *)
(* the toolbar's zoom and invert buttons.                                   *)

TransformZoom ==
    \E action \in ZoomActions :
        /\ action # "reset" =>
              zoomInc[activeImageIndex] + zoomDec[activeImageIndex] < MaxTransformOps
        /\ updateSliceZoom(activeImageIndex, action)

TransformDown == PointerDownOn(EventSlots, {<<0, 0>>}, 0)
TransformMove == PointerMoveOn(EventSlots, Points, MaxPanMoves)
TransformUp == PointerUpOn(EventSlots, {<<0, 0>>}, 0)

NextTransform ==
    \/ TransformZoom
    \/ InvertButton
    \/ TransformDown
    \/ TransformMove
    \/ TransformUp

SpecTransform == InitReady /\ [][NextTransform]_vars

\* C21: updateSliceZoom(S, action) changes only slot S's zoom factor and
\* toggleSliceInvert(S) changes only slot S's invert flag: the zoom, invert
\* flag and pan offset of every other slot, and S's remaining transform
\* fields, are unchanged.
C21_TransformFrame ==
    [][/\ \A S \in Slots, action \in ZoomActions :
             updateSliceZoom(S, action) =>
                 /\ \A j \in Slots \ {S} : sliceZoomLevels'[j] = sliceZoomLevels[j]
                 /\ \A j \in Slots : /\ sliceInverted'[j] = sliceInverted[j]
                                      /\ panPosition'[j] = panPosition[j]
       /\ \A S \in Slots :
             toggleSliceInvert(S) =>
                 /\ sliceInverted'[S] = ~sliceInverted[S]
                 /\ \A j \in Slots \ {S} : sliceInverted'[j] = sliceInverted[j]
                 /\ \A j \in Slots : /\ sliceZoomLevels'[j] = sliceZoomLevels[j]
                                      /\ panPosition'[j] = panPosition[j]]_vars

\* C35: a pan gesture on slot S (pointer-down at c0 that hits no annotation
\* in pan mode, pointer-moves at c1..cn, pointer-up) adds cn - c0 to the pan
\* offset of S, and its pointer-down clears the selection.  Step by step: the
\* pointer-down clears the selection, records c0 and leaves the offsets; every
\* pointer-move at c adds c minus the recorded position to the offset of S
\* (the active slot since the pointer-down) and records c; the pointer-up
\* leaves the offsets.
C35_PanAddsCursorDelta ==
    [][/\ \A canvasIndex \in PointerTargets, p \in Points :
             (/\ annotationMode = "none"
              /\ CanvasMounted(canvasIndex, viewMode, visibleImages)
              /\ Len(clickedAnnotations(canvasIndex, p)) = 0
              /\ handleMouseDown(canvasIndex, p, NoPrompt))
             => /\ selectedAnnotation' = Null
                /\ isPanning' /\ activeImageIndex' = canvasIndex
                /\ lastMousePosition' = ClientPoint(canvasIndex, p)
                /\ panPosition' = panPosition
       /\ \A canvasIndex \in PointerTargets, p \in Points :
             (isPanning /\ handleMouseMove(canvasIndex, p))
             => LET S == activeImageIndex
                    c == ClientPoint(canvasIndex, p)
                IN  /\ panPosition'[S] =
                          <<panPosition[S][1] + c[1] - lastMousePosition[1],
                            panPosition[S][2] + c[2] - lastMousePosition[2]>>
                    /\ lastMousePosition' = c
       /\ \A canvasIndex \in PointerTargets, p \in Points :
             (isPanning /\ handleMouseUp(canvasIndex, p))
             => ~isPanning' /\ panPosition' = panPosition]_vars

\* slot 0 was panned, then slot 1 was zoomed in and inverted: slot 0 keeps its
\* pan offset, zoom and invert flag, slot 1 its pan offset
C21_Witness ==
    /\ panPosition[0] # <<0, 0>> /\ panPosition[1] = <<0, 0>>
    /\ sliceZoomLevels[0] = ZoomDefault /\ ~sliceInverted[0]
    /\ sliceZoomLevels[1] = ZoomDefault + ZoomStep /\ sliceInverted[1]
    /\ activeImageIndex = 1

----------------------------------------------------------------------------
(* Rendering: the draw effect's image loads of successive render passes,    *)
(* completing in any order, while the toolbar zooms the active slot and     *)
(* images are replaced by uploads.                                          *)

\* the viewer after its mount effects, the image of one slot being slow to
\* load; the loads of the first render have completed
InitRender ==
    /\ InitLayout
    /\ \E s \in Slots :
          images = [i \in Slots |-> [SampleImage(i) EXCEPT !.slow = (i = s)]]
    /\ imageErrors = [i \in Slots |-> FALSE]
    /\ uploads = 0
    /\ pendingLoads = {}
    /\ pendingPaints = {}
    /\ InitStore /\ InitGesture /\ InitZoom /\ InitAI /\ InitNotice /\ InitBooted
    /\ InitSurface

NextRender ==
    \/ TransformZoom
    \/ UploadImage
    \/ ImageLoaded

SpecRender == InitRender /\ [][NextRender]_vars

\* C29: once all started image loads have completed, the surface of every
\* visible slot shows the rendering of the slot's latest image resource, zoom,
\* pan, invert flag, annotations and selection, whatever the order in which
\* the loads of successive render passes completed.
C29_SettledSurfaceShowsLatest ==
    (lifecycle = "ready" /\ pendingPaints = {} /\ pendingLoads = {}) =>
        \A S \in getVisibleIndices(viewMode, activeImageIndex, visibleImages) :
            ~imageErrors[S] =>
                surface[S] = Painting(images, sliceZoomLevels, panPosition,
                                      sliceInverted, annotations,
                                      selectedAnnotation, S)

----------------------------------------------------------------------------
(* The view-transform store under the toolbar's zoom and invert buttons,    *)
(* continued: the closed form of C1.                                        *)

\* clamp(1.0 + 0.1 * increases - 0.1 * decreases, 0.5, 3.0), in tenths
ClosedForm(s) ==
    Max(ZoomMin, Min(ZoomMax, ZoomDefault + ZoomStep * zoomInc[s] - ZoomStep * zoomDec[s]))

\* C1 as stated: after any sequence of increases and decreases since the last
\* reset, the zoom of every slot equals the clamped closed form.
C1_ClosedFormAlways ==
    \A s \in Slots : sliceZoomLevels[s] = ClosedForm(s)

\* C1: every zoom step is clamped on its own, so the zoom of a slot equals the
\* closed form clamp(1.0 + 0.1 * increases - 0.1 * decreases) as long as no
\* step since the slot's last reset ran into a limit, and a reset (no steps
\* since) gives exactly 1.0; the level always stays within the limits.
C1_ClosedFormWhileUnclamped ==
    \A s \in Slots :
        /\ sliceZoomLevels[s] >= ZoomMin /\ sliceZoomLevels[s] <= ZoomMax
        /\ ~zoomClamped[s] => sliceZoomLevels[s] = ClosedForm(s)

\* C20: in every reachable state every slot's zoom factor lies in [0.5, 3.0];
\* an increase gives min(z + 0.1, 3.0), a decrease gives max(z - 0.1, 0.5),
\* a reset gives 1.0, and the other slots keep their zoom (in tenths).
C20_ZoomStaysInRange ==
    /\ [](\A s \in Slots : sliceZoomLevels[s] \in ZoomMin..ZoomMax)
    /\ [][\A action \in ZoomActions :
            updateSliceZoom(activeImageIndex, action) =>
                LET z == sliceZoomLevels[activeImageIndex]
                    after == sliceZoomLevels'[activeImageIndex]
                IN  /\ action = "increase" =>
                          after = (IF z + ZoomStep <= ZoomMax THEN z + ZoomStep ELSE ZoomMax)
                    /\ action = "decrease" =>
                          after = (IF z - ZoomStep >= ZoomMin THEN z - ZoomStep ELSE ZoomMin)
                    /\ action = "reset" => after = ZoomDefault
                    /\ \A s \in Slots \ {activeImageIndex} :
                          sliceZoomLevels'[s] = sliceZoomLevels[s]]_vars

\* a slot was zoomed in to the upper limit and one increase more left it there
C20_Witness ==
    \E s \in Slots :
        /\ sliceZoomLevels[s] = ZoomMax
        /\ zoomClamped[s]
        /\ zoomInc[s] = 21 /\ zoomDec[s] = 0

\* increases and decreases were mixed without reaching a limit
C1_Witness ==
    \E s \in Slots :
        /\ ~zoomClamped[s] /\ zoomInc[s] = 3 /\ zoomDec[s] = 1
        /\ sliceZoomLevels[s] = ZoomDefault + 2 * ZoomStep

----------------------------------------------------------------------------
(* The draw rectangle: where img.onload paints the loaded image on its      *)
(* canvas.  The numbers of the computation are exact fractions in lowest    *)
(* terms; the zoom factor z (in tenths) is the fraction z / ZoomDefault.    *)

RECURSIVE GCD(_, _)
GCD(a, b) == IF b = 0 THEN a ELSE GCD(b, a % b)

Frac(n, d) ==
    LET sign == IF d < 0 THEN -1 ELSE 1
        size == IF n < 0 THEN -n ELSE n
        g == GCD(size, sign * d)
    IN  [num |-> (sign * n) \div g, den |-> (sign * d) \div g]

Whole(n) == Frac(n, 1)
Plus(a, b) == Frac(a.num * b.den + b.num * a.den, a.den * b.den)
Minus(a, b) == Frac(a.num * b.den - b.num * a.den, a.den * b.den)
Times(a, b) == Frac(a.num * b.num, a.den * b.den)
Over(a, b) == Frac(a.num * b.den, a.den * b.num)
Greater(a, b) == a.num * b.den > b.num * a.den

\* the canvas element of the single view and the canvas elements of the grid
SingleCanvasSize == 800
GridCanvasSize == 500
canvasSize(mode) ==
    IF mode = "single"
    THEN [width |-> SingleCanvasSize, height |-> SingleCanvasSize]
    ELSE [width |-> GridCanvasSize, height |-> GridCanvasSize]

\* an image resource that decodes to a picture of the given dimensions
SizedImage(i, size) ==
    [url |-> <<"sample", i>>, ok |-> TRUE, slow |-> FALSE,
     width |-> size.width, height |-> size.height]

\* the picture stretched over the zoomed canvas, whatever its proportions
stretchRect(img, canvas, zoom, pan) ==
    LET level == Frac(zoom, ZoomDefault)
        drawWidth == Times(Whole(canvas.width), level)
        drawHeight == Times(Whole(canvas.height), level)
    IN  [x |-> Plus(Over(Minus(Whole(canvas.width), drawWidth), Whole(2)), Whole(pan[1])),
         y |-> Plus(Over(Minus(Whole(canvas.height), drawHeight), Whole(2)), Whole(pan[2])),
         drawWidth |-> drawWidth, drawHeight |-> drawHeight]

\* x, y, drawWidth and drawHeight as img.onload computes them
drawRect(img, canvas, zoom, pan) ==
    LET imgRatio == Frac(img.width, img.height)
        canvasRatio == Frac(canvas.width, canvas.height)
        level == Frac(zoom, ZoomDefault)
        wider == Greater(imgRatio, canvasRatio)
        drawWidth == IF wider
                     THEN Times(Whole(canvas.width), level)
                     ELSE Times(Times(Whole(canvas.height), level), imgRatio)
        drawHeight == IF wider
                      THEN Over(Times(Whole(canvas.width), level), imgRatio)
                      ELSE Times(Whole(canvas.height), level)
    IN  [x |-> Plus(Over(Minus(Whole(canvas.width), drawWidth), Whole(2)), Whole(pan[1])),
         y |-> Plus(Over(Minus(Whole(canvas.height), drawHeight), Whole(2)), Whole(pan[2])),
         drawWidth |-> drawWidth, drawHeight |-> drawHeight]

\* the rectangle of the picture that the canvas of slot i shows
shownRect(i) ==
    drawRect(surface[i].image, canvasSize(viewMode), surface[i].zoom, surface[i].pan)

\* the dimensions of the pictures: square, landscape, portrait, panorama
ImageSizes ==
    <<[width |-> 512, height |-> 512], [width |-> 640, height |-> 480],
      [width |-> 480, height |-> 640], [width |-> 1024, height |-> 512]>>

\* the viewer after its mount effects, the four slots holding pictures of
\* the four dimensions: slot 0 the square or the landscape one, and the
\* slots after it the dimensions that follow
InitDraw ==
    /\ InitLayout
    /\ \E first \in {0, 1} :
          images = [i \in Slots |->
                      SizedImage(i, ImageSizes[((first + i) % Len(ImageSizes)) + 1])]
    /\ imageErrors = [i \in Slots |-> FALSE]
    /\ uploads = 0
    /\ pendingLoads = {}
    /\ pendingPaints = {}
    /\ InitStore /\ InitGesture /\ InitZoom /\ InitAI /\ InitNotice /\ InitBooted
    /\ InitSurface

NextDraw ==
    \/ TransformZoom
    \/ TransformDown
    \/ TransformMove
    \/ TransformUp
    \/ ViewModeButton

SpecDraw == InitDraw /\ [][NextDraw]_vars

\* C38: the rectangle in which a loaded image is painted has the image's
\* proportions; when the image is relatively wider than the canvas its width
\* is the canvas width times the slot's zoom factor, otherwise its height is
\* the canvas height times the zoom factor; and its centre is the centre of
\* the canvas moved by the slot's pan offset.
C38_DrawRectangle ==
    \A S \in DrawnSlots(viewMode, activeImageIndex, visibleImages) :
        surface[S].kind = "image" =>
            LET img == images[S]
                canvas == canvasSize(viewMode)
                level == Frac(sliceZoomLevels[S], ZoomDefault)
                r == shownRect(S)
            IN  /\ r.drawWidth.num > 0 /\ r.drawHeight.num > 0
                /\ Times(r.drawWidth, Whole(img.height))
                      = Times(r.drawHeight, Whole(img.width))
                /\ IF img.width * canvas.height > img.height * canvas.width
                   THEN r.drawWidth = Times(Whole(canvas.width), level)
                   ELSE r.drawHeight = Times(Whole(canvas.height), level)
                /\ Plus(r.x, Over(r.drawWidth, Whole(2)))
                      = Plus(Frac(canvas.width, 2), Whole(panPosition[S][1]))
                /\ Plus(r.y, Over(r.drawHeight, Whole(2)))
                      = Plus(Frac(canvas.height, 2), Whole(panPosition[S][2]))

\* the single view shows a landscape picture, zoomed in and panned: the
\* rectangle is as wide as the zoomed canvas and three quarters as high
C38_Witness ==
    /\ viewMode = "single"
    /\ surface[0].kind = "image"
    /\ images[0].width = 640 /\ images[0].height = 480
    /\ sliceZoomLevels[0] = ZoomDefault + ZoomStep
    /\ panPosition[0] # <<0, 0>>
    /\ shownRect(0).drawWidth = Whole(880)
    /\ shownRect(0).drawHeight = Whole(660)

====
